---- MODULE Spec2Model ----
(***************************************************************************)
(* Model of the zuzzuu web-push service workers.                           *)
(*                                                                         *)
(* The repository holds several builds of the same service worker.  Two    *)
(* of them own a connection manager and a delivery path:                   *)
(*   "Z"  src/zuzzuu-sw.js            (cooldown, fixed 10 s reconnect)     *)
(*   "E"  src/unnamed/part_004        ("Enhanced Version", dedup cache,    *)
(*                                     exponential reconnect)              *)
(* and a third one, src/unnamed/part_005, adds the image validator with    *)
(* retries.  The variable `variant` says which build a behaviour runs.     *)
(*                                                                         *)
(* Three specifications share the module:                                  *)
(*   Spec          the connection manager (builds Z and E)                 *)
(*   SpecDispatch  the push / stream delivery path (builds Z and E)        *)
(*   SpecAsset     the image validator and the display of part_005         *)
(* Times are milliseconds, as in the code.                                 *)
(***************************************************************************)
EXTENDS Integers, Sequences, FiniteSets, TLC

VARIABLES
    variant,                 \* which build runs: "Z" or "E"
    now,                     \* Date.now()
    \* ---- connection manager
    socket,                  \* index into sock of the current WebSocket, 0 = null
    isConnected,
    subscriberId,            \* an identity or "null"
    connectionInProgress,
    lastConnectionAttempt,
    reconnectAttempts,       \* build E only
    sock,                    \* every WebSocket object created so far
    timers,                  \* pending reconnect timers: [due, owner]
    lastClose,               \* history: code of the most recent close event, 0 = none
    \* ---- delivery path
    notificationCache,       \* build E: the Map derived identity -> time seen
    nextSweep,               \* build E: due time of the next cache cleanup
    log,                     \* history: the notifications that reached a gate
    last,                    \* what the most recent push / stream handler did
    \* ---- asset validator (part_005)
    vpc,                     \* position of showBrowserNotification / validator
    vurl,                    \* image url being validated
    retryCount,
    waits,                   \* delays slept before the retries, in order
    outcomes,                \* history: how every finished attempt ended
    validated,               \* result of preloadAndValidateImage
    shown,                   \* what was handed to showNotification
    frames,                  \* part_005: image field of every frame received
    handlers,                \* part_005: handleWebSocketMessage calls suspended at an await
    emitted                  \* part_005: broadcasts and showNotification calls, in order

connVars == <<socket, isConnected, subscriberId, connectionInProgress,
              lastConnectionAttempt, reconnectAttempts, sock, timers, lastClose>>
dispVars == <<notificationCache, nextSweep, log, last>>
assetVars == <<vpc, vurl, retryCount, waits, outcomes, validated, shown>>
streamVars == <<frames, handlers, emitted>>
vars == <<variant, now, connVars, dispVars, assetVars, streamVars>>

----------------------------------------------------------------------------
(* Program constants *)

CONNECTION_COOLDOWN == 5000
MAX_RECONNECT_ATTEMPTS == 5
RECONNECT_DELAY_Z == 10000
RECONNECT_BASE_E == 1000
RECONNECT_CAP_E == 30000
NOTIFICATION_TTL == 60000
CACHE_CLEANUP_INTERVAL == 60000

(* Bounds of the model *)

Step == 2500            \* granularity of the clock of Spec
MaxTime == 15000        \* Spec stops the clock here
MaxSockets == 3         \* WebSocket objects created in one behaviour
DStep == 30000          \* granularity of the clock of SpecDispatch
MaxTimeD == 95000       \* SpecDispatch stops the clock here
MaxMsgs == 2            \* notifications handled in one behaviour of build E
MaxClients == 1         \* foreground contexts open when a message arrives
MaxSocketsR == 6        \* SpecReconnect: WebSocket objects created in one behaviour
MaxContexts == 2        \* SpecBroadcast: foreground contexts matchAll returns
StreamStep == 250       \* granularity of the clock of SpecStream
MaxTimeS == 6000        \* SpecStream stops the clock here
MaxFrames == 3          \* SpecStream: notification frames received in one behaviour

Ids == {"A", "B"}       \* subscriber identities
Null == "null"
Variants == {"Z", "E"}
CloseCodes == {1000, 1001, 1006}

\* Date.now() is far beyond one cooldown after the epoch when the worker starts,
\* so the first connect is never inside the cooldown of lastConnectionAttempt = 0.
StartTime == CONNECTION_COOLDOWN

Min(a, b) == IF a < b THEN a ELSE b

RECURSIVE Pow2(_)
Pow2(n) == IF n = 0 THEN 1 ELSE 2 * Pow2(n - 1)

----------------------------------------------------------------------------
(* WebSocket objects *)

\* closeReq of a socket is the code the worker passed to close() for the closing
\* handshake under way; NoCode: no handshake under way, or close() was called
\* without a code.
NoCode == 0

\* new WebSocket(url): readyState CONNECTING.
NewSocket(subId, cause) ==
    [readyState |-> "CONNECTING", ident |-> subId, at |-> now, by |-> cause,
     failed |-> FALSE, closeReq |-> NoCode]

\* socket.close(code, ...) called by the worker.  Closing a CONNECTING socket
\* fails the connection; an OPEN one starts the closing handshake with the
\* code; otherwise nothing.
CloseCallWith(s, code) ==
    IF s.readyState = "CONNECTING"
    THEN [s EXCEPT !.readyState = "CLOSING", !.failed = TRUE, !.closeReq = code]
    ELSE IF s.readyState = "OPEN"
    THEN [s EXCEPT !.readyState = "CLOSING", !.closeReq = code]
    ELSE s

\* socket.close(1000, 'Service worker disconnect')
CloseCall(s) == CloseCallWith(s, 1000)

OpenSockets == {i \in DOMAIN sock : sock[i].readyState = "OPEN"}
ConnectingSockets == {i \in DOMAIN sock : sock[i].readyState = "CONNECTING"}

----------------------------------------------------------------------------
(* Connection manager: guards shared by both builds *)

\* Mutant of InCooldown: the cooldown test never rejects.
InCooldown_Off == now - lastConnectionAttempt < 0

\* if (now - lastConnectionAttempt < CONNECTION_COOLDOWN) return;
InCooldown == now - lastConnectionAttempt < CONNECTION_COOLDOWN

\* if (isConnected && subscriberId === subId) return;
AlreadyConnected_Never(subId) == FALSE
AlreadyConnected(subId) == isConnected /\ subscriberId = subId

\* The three early returns of connectWebSocket (Z) and handleConnectSocketIO (E).
ConnectRejected(subId) ==
    connectionInProgress \/ AlreadyConnected(subId) \/ InCooldown

----------------------------------------------------------------------------
(* Build Z: src/zuzzuu-sw.js *)

\* The body of connectWebSocket(subId, wsUrl).  urlOk = FALSE is a url for which
\* new WebSocket(url) throws, which the catch block handles.
ConnectWebSocketZ(subId, urlOk) ==
    IF ConnectRejected(subId)
    THEN UNCHANGED <<socket, isConnected, subscriberId, connectionInProgress,
                     lastConnectionAttempt, sock>>
    ELSE /\ lastConnectionAttempt' = now
         /\ subscriberId' = subId
         /\ UNCHANGED isConnected
         \* "Close existing connection if different subscriber": the test reads
         \* subscriberId after it was overwritten with subId two lines above.
         /\ LET closeOld == /\ socket # 0
                            /\ sock[socket].readyState = "OPEN"
                            /\ subscriberId' # subId
                kept == IF closeOld
                        THEN [sock EXCEPT ![socket] = CloseCallWith(@, NoCode)]
                        ELSE sock
            IN  IF urlOk
                THEN /\ sock' = Append(kept, NewSocket(subId, "connect"))
                     /\ socket' = Len(sock) + 1
                     /\ connectionInProgress' = TRUE
                ELSE /\ sock' = kept
                     /\ socket' = socket
                     /\ connectionInProgress' = FALSE

\* message CONNECT_WEBSOCKET
MsgConnectWebSocketZ(subId, urlOk) ==
    /\ variant = "Z"
    /\ ConnectWebSocketZ(subId, urlOk)
    /\ UNCHANGED <<streamVars, variant, now, reconnectAttempts, timers, lastClose, dispVars, assetVars>>

\* message DISCONNECT_WEBSOCKET: disconnectWebSocket()
DisconnectWebSocketZ ==
    /\ variant = "Z"
    /\ connectionInProgress' = FALSE
    /\ sock' = IF socket # 0 THEN [sock EXCEPT ![socket] = CloseCall(@)] ELSE sock
    /\ socket' = 0
    /\ isConnected' = FALSE
    /\ subscriberId' = Null
    /\ UNCHANGED <<streamVars, variant, now, lastConnectionAttempt, reconnectAttempts, timers,
                   lastClose, dispVars, assetVars>>

\* message SET_SUBSCRIBER_ID
SetSubscriberIdZ(id) ==
    /\ variant = "Z"
    /\ subscriberId' = id
    /\ UNCHANGED <<streamVars, variant, now, socket, isConnected, connectionInProgress,
                   lastConnectionAttempt, reconnectAttempts, sock, timers,
                   lastClose, dispVars, assetVars>>

\* message CONNECT_SOCKETIO: connectSocketIO(subId, socketUrl)
ConnectSocketIOZ(subId) ==
    /\ variant = "Z"
    /\ subscriberId' = subId
    /\ UNCHANGED <<streamVars, variant, now, socket, isConnected, connectionInProgress,
                   lastConnectionAttempt, reconnectAttempts, sock, timers,
                   lastClose, dispVars, assetVars>>

\* message DISCONNECT_SOCKETIO: disconnectSocketIO()
DisconnectSocketIOZ ==
    /\ variant = "Z"
    /\ isConnected' = FALSE
    /\ UNCHANGED <<streamVars, variant, now, socket, subscriberId, connectionInProgress,
                   lastConnectionAttempt, reconnectAttempts, sock, timers,
                   lastClose, dispVars, assetVars>>

\* Mutant of ShouldReconnectZ: only 1000 counts as a normal closure.
ShouldReconnectZ_Only1000(code) == code # 1000

\* if (event.code !== 1000 && event.code !== 1001)
ShouldReconnectZ(code) == code # 1000 /\ code # 1001

\* socket.onclose of build Z (socket.onerror, which runs just before it when the
\* connection failed, assigns the same two flags).
OnCloseZ(i, code) ==
    /\ isConnected' = FALSE
    /\ connectionInProgress' = FALSE
    /\ timers' = IF ShouldReconnectZ(code)
                 THEN timers \cup {[due |-> now + RECONNECT_DELAY_Z, owner |-> i]}
                 ELSE timers
    /\ UNCHANGED <<socket, subscriberId, lastConnectionAttempt, reconnectAttempts>>

\* The setTimeout callback of socket.onclose, build Z.
ReconnectTimerZ(t) ==
    /\ variant = "Z"
    /\ t \in timers
    /\ t.due <= now
    /\ timers' = timers \ {t}
    /\ IF ~isConnected /\ ~connectionInProgress
       THEN ConnectWebSocketZ(subscriberId, TRUE)
       ELSE UNCHANGED <<socket, isConnected, subscriberId, connectionInProgress,
                        lastConnectionAttempt, sock>>
    /\ UNCHANGED <<streamVars, variant, now, reconnectAttempts, lastClose, dispVars, assetVars>>

----------------------------------------------------------------------------
(* Build E: src/unnamed/part_004, "Enhanced Version" *)

\* connectWebSocket(subId, wsUrl) of build E: the url is built from
\* self.location, the constructor does not throw.
ConnectWebSocketE(subId, cause) ==
    /\ sock' = Append(sock, NewSocket(subId, cause))
    /\ socket' = Len(sock) + 1

\* message CONNECT_SOCKETIO: handleConnectSocketIO(data)
HandleConnectSocketIO(subId) ==
    /\ variant = "E"
    /\ IF ConnectRejected(subId)
       THEN UNCHANGED <<socket, subscriberId, connectionInProgress,
                        lastConnectionAttempt, sock>>
       ELSE /\ lastConnectionAttempt' = now
            /\ connectionInProgress' = TRUE
            /\ subscriberId' = subId
            /\ ConnectWebSocketE(subId, "connect")
    /\ UNCHANGED <<streamVars, variant, now, isConnected, reconnectAttempts, timers,
                   lastClose, dispVars, assetVars>>

\* Mutant of DisconnectSocketIOE: the reconnect counter is left as it is.
DisconnectSocketIOE_NoReset ==
    /\ variant = "E"
    /\ connectionInProgress' = FALSE
    /\ sock' = IF socket # 0 THEN [sock EXCEPT ![socket] = CloseCall(@)] ELSE sock
    /\ socket' = 0
    /\ isConnected' = FALSE
    /\ subscriberId' = Null
    /\ UNCHANGED <<streamVars, variant, now, lastConnectionAttempt, reconnectAttempts, timers,
                   lastClose, dispVars, assetVars>>

\* message DISCONNECT_SOCKETIO: disconnectSocketIO()
DisconnectSocketIOE ==
    /\ variant = "E"
    /\ connectionInProgress' = FALSE
    /\ sock' = IF socket # 0 THEN [sock EXCEPT ![socket] = CloseCall(@)] ELSE sock
    /\ socket' = 0
    /\ isConnected' = FALSE
    /\ subscriberId' = Null
    /\ reconnectAttempts' = 0
    /\ UNCHANGED <<streamVars, variant, now, lastConnectionAttempt, timers, lastClose, dispVars, assetVars>>

\* message SET_SUBSCRIBER_ID: setSubscriberId(id); a non-string id is refused.
SetSubscriberIdE(id) ==
    /\ variant = "E"
    /\ subscriberId' = IF id = Null THEN subscriberId ELSE id
    /\ UNCHANGED <<streamVars, variant, now, socket, isConnected, connectionInProgress,
                   lastConnectionAttempt, reconnectAttempts, sock, timers,
                   lastClose, dispVars, assetVars>>

\* code !== 1000 && code !== 1001 && reconnectAttempts < MAX_RECONNECT_ATTEMPTS
ShouldReconnectE_NoBudget(code) == code # 1000 /\ code # 1001
ShouldReconnectE(code) ==
    code # 1000 /\ code # 1001 /\ reconnectAttempts < MAX_RECONNECT_ATTEMPTS

\* Math.min(1000 * Math.pow(2, reconnectAttempts), 30000), after the increment
ReconnectDelayE(attempts) == Min(RECONNECT_BASE_E * Pow2(attempts), RECONNECT_CAP_E)

\* socket.onclose of build E
OnCloseE(i, code) ==
    /\ isConnected' = FALSE
    /\ connectionInProgress' = FALSE
    /\ IF ShouldReconnectE(code)
       THEN /\ reconnectAttempts' = reconnectAttempts + 1
            /\ timers' = timers \cup
                 {[due |-> now + ReconnectDelayE(reconnectAttempts + 1), owner |-> i]}
       ELSE UNCHANGED <<reconnectAttempts, timers>>
    /\ UNCHANGED <<socket, subscriberId, lastConnectionAttempt>>

\* The setTimeout callback of socket.onclose, build E: if (!isConnected)
\* connectWebSocket(subId, wsUrl), with the subId of the closure.
ReconnectTimerE(t) ==
    /\ variant = "E"
    /\ t \in timers
    /\ t.due <= now
    /\ timers' = timers \ {t}
    /\ IF ~isConnected
       THEN ConnectWebSocketE(sock[t.owner].ident, "timer")
       ELSE UNCHANGED <<socket, sock>>
    /\ UNCHANGED <<streamVars, variant, now, isConnected, subscriberId, connectionInProgress,
                   lastConnectionAttempt, reconnectAttempts, lastClose, dispVars, assetVars>>

\* handleWebSocketMessage of build E on a Socket.IO DISCONNECT packet ("41..."):
\* isConnected = false.  The frame arrives on an open transport.
DisconnectPacketE(i) ==
    /\ variant = "E"
    /\ i \in OpenSockets
    /\ isConnected' = FALSE
    /\ UNCHANGED <<streamVars, variant, now, socket, subscriberId, connectionInProgress,
                   lastConnectionAttempt, reconnectAttempts, sock, timers,
                   lastClose, dispVars, assetVars>>

----------------------------------------------------------------------------
(* Transport events, delivered by the browser to the handlers of socket i *)

\* socket.onopen (both builds); build E also resets the reconnect counter.
SocketOpens(i) ==
    /\ i \in ConnectingSockets
    /\ sock' = [sock EXCEPT ![i].readyState = "OPEN"]
    /\ isConnected' = TRUE
    /\ connectionInProgress' = FALSE
    /\ reconnectAttempts' = IF variant = "E" THEN 0 ELSE reconnectAttempts
    /\ UNCHANGED <<streamVars, variant, now, socket, subscriberId, lastConnectionAttempt,
                   timers, lastClose, dispVars, assetVars>>

\* The close codes the browser can report for socket i: a connection that never
\* opened, or was closed by the worker while connecting, fails with 1006; an open
\* one ends with the peer's code or abnormally; a closing handshake ends with the
\* code 1000 sent by the worker, or abnormally.
PossibleCloseCodes(s) ==
    IF s.readyState = "CONNECTING" \/ (s.readyState = "CLOSING" /\ s.failed)
    THEN {1006}
    ELSE IF s.readyState = "OPEN" THEN CloseCodes
    ELSE IF s.readyState = "CLOSING" THEN {1000, 1006}
    ELSE {}

\* The close event of socket i with the given code (preceded by the error event
\* when the connection failed): socket.onerror, then socket.onclose.
SocketCloses(i, code) ==
    /\ variant \in Variants
    /\ i \in DOMAIN sock
    /\ code \in PossibleCloseCodes(sock[i])
    /\ sock' = [sock EXCEPT ![i].readyState = "CLOSED", ![i].closeReq = NoCode]
    /\ lastClose' = code
    /\ IF variant = "Z" THEN OnCloseZ(i, code) ELSE OnCloseE(i, code)
    /\ UNCHANGED <<streamVars, variant, now, dispVars, assetVars>>

\* Time passes.  A reconnect timer fires when it is due: the clock does not move
\* past a due timer.
Tick ==
    /\ now < MaxTime
    /\ \A t \in timers : t.due > now
    /\ now' = now + Step
    /\ UNCHANGED <<streamVars, variant, connVars, dispVars, assetVars>>

----------------------------------------------------------------------------
(* Delivery path: JavaScript values *)

\* undefined.  A template literal prints it as the string "undefined", which is
\* the value chosen here, so `${v}` is v for the strings and for undefined.
Undef == "undefined"

\* Truthiness of a string or undefined: !!v
Truthy(v) == v # Undef /\ v # ""

\* a || b
Or(a, b) == IF Truthy(a) THEN a ELSE b

\* A notification object, reduced to the fields the gates read.
MkRec(t, m, i, s) ==
    [title |-> t, message |-> m, body |-> Undef, id |-> i, source |-> s]

\* An object without any of these fields (also: a JSON number, string or boolean,
\* whose properties all read undefined).
EmptyRec == MkRec(Undef, Undef, Undef, Undef)

\* Object spread { ...base, ...over }: the own properties of `over` win.
Spread(base, over) ==
    [f \in DOMAIN base |-> IF over[f] # Undef THEN over[f] ELSE base[f]]

\* No object: null, or nothing to report.
NoRec == [none |-> TRUE]
NoEvent ==
    [op |-> "none", frame |-> "", data |-> NoRec, key |-> "", gate |-> "",
     parseFailed |-> FALSE, showReq |-> 0, display |-> "none", shown |-> NoRec,
     fallbacks |-> 0, bcasts |-> {}, clients |-> 0, pong |-> FALSE,
     unhandled |-> FALSE]

\* last.bcasts holds the types of the messages handed to broadcastToClients or
\* posted by checkAndNotifyClients; with no foreground context open nobody
\* receives them.
PostedToClients(l) == IF l.clients > 0 THEN l.bcasts ELSE {}

\* Outcome of registration.showNotification: "ok"; "recordFails" (the call
\* with the record's options rejects, the generic fallback call works);
\* "allFail" (every call rejects, e.g. permission withdrawn).
ShowOutcomes == {"ok", "recordFails", "allFail"}

----------------------------------------------------------------------------
(* Build E: dedup cache, src/unnamed/part_004 *)

\* const notificationId = data.id || `${data.title}_${data.message}`;
DerivedId(data) == Or(data.id, data.title \o "_" \o data.message)

\* notificationCache.has(id) && now - lastSeen < NOTIFICATION_TTL
CacheHit_Never(key) == FALSE
CacheHit(key) ==
    key \in DOMAIN notificationCache /\ now - notificationCache[key] < NOTIFICATION_TTL

\* The Map after isDuplicateNotification(data): unchanged on a hit, else
\* notificationCache.set(id, now).
CacheAfterCheck_NoSet(key) == notificationCache
CacheAfterCheck_Touch(key) ==
    [k \in DOMAIN notificationCache \cup {key} |->
        IF k = key THEN now ELSE notificationCache[k]]
CacheAfterCheck(key) ==
    IF CacheHit(key)
    THEN notificationCache
    ELSE [k \in DOMAIN notificationCache \cup {key} |->
            IF k = key THEN now ELSE notificationCache[k]]

\* cleanupNotificationCache(): delete the entries with now - timestamp > TTL.
CacheAfterCleanup_Clear == <<>>
CacheAfterCleanup_Fresh ==
    [k \in {x \in DOMAIN notificationCache : ~(now - notificationCache[x] > 0)} |->
        notificationCache[k]]
CacheAfterCleanup ==
    [k \in {x \in DOMAIN notificationCache :
              ~(now - notificationCache[x] > NOTIFICATION_TTL)} |->
        notificationCache[k]]

\* The setInterval(cleanupNotificationCache, CACHE_CLEANUP_INTERVAL) callback.
Sweep ==
    /\ variant = "E"
    /\ nextSweep <= now
    /\ notificationCache' = CacheAfterCleanup
    /\ nextSweep' = nextSweep + CACHE_CLEANUP_INTERVAL
    /\ UNCHANGED <<streamVars, variant, now, connVars, log, last, assetVars>>

\* One entry of the history: a notification that passed the gates at time t and
\* was handed to the display and to the foreground contexts.
LogEntry(chan, key) == [t |-> now, chan |-> chan, key |-> key]

----------------------------------------------------------------------------
(* Build E: stream and push handlers, src/unnamed/part_004 *)

\* showBrowserNotification(data) of build E: one showNotification call with the
\* record, showFallbackNotification() when it rejects.
DisplayE(outcome) == IF outcome = "ok" THEN "record"
                     ELSE IF outcome = "recordFails" THEN "fallback" ELSE "failed"

\* handleNotificationEvent(notificationData): dedup gate, then broadcast and show.
\* The promise of showBrowserNotification is neither awaited nor caught: when
\* showFallbackNotification() rejects too, the rejection is unhandled.
\* A null payload makes isDuplicateNotification throw; handleWebSocketMessage
\* catches and logs it.
HandleNotificationEvent(frameKind, rec, nc, outcome) ==
    IF rec = NoRec
    THEN /\ last' = [NoEvent EXCEPT !.op = "stream", !.frame = frameKind,
                                    !.gate = "threw", !.clients = nc]
         /\ UNCHANGED <<notificationCache, log>>
    ELSE LET key == DerivedId(rec)
             dup == CacheHit(key)
         IN  /\ notificationCache' = CacheAfterCheck(key)
             /\ log' = IF dup THEN log ELSE Append(log, LogEntry("stream", key))
             /\ last' = IF dup
                  THEN [NoEvent EXCEPT !.op = "stream", !.frame = frameKind,
                            !.data = rec, !.key = key, !.gate = "dup",
                            !.clients = nc]
                  ELSE [NoEvent EXCEPT !.op = "stream", !.frame = frameKind,
                            !.data = rec, !.key = key, !.gate = "delivered",
                            !.bcasts = {"NOTIFICATION_RECEIVED"},
                            !.showReq = 1, !.display = DisplayE(outcome),
                            !.fallbacks = IF outcome = "ok" THEN 0 ELSE 1,
                            !.unhandled = (outcome = "allFail"),
                            !.clients = nc]

\* The frames handleWebSocketMessage of build E tells apart.  "event42" is
\* 42["name", payload]; "json" is plain JSON {type: name, data: payload} or
\* {type: name, ...payload}; "bad42" is 42 followed by text that is not JSON;
\* "text" is any other text that is not JSON.
RecsE ==
    {MkRec("T", "M", i, s) : i \in {Undef, "n1"}, s \in {Undef, "setup"}}

FramesE ==
    {[kind |-> k, name |-> "", rec |-> NoRec] :
        k \in {"ping", "pong", "open0", "connect40", "disconnect41", "text", "bad42"}}
    \cup {[kind |-> k, name |-> "notification", rec |-> r] :
            k \in {"event42", "json"}, r \in RecsE \cup {NoRec}}
    \cup {[kind |-> k, name |-> n, rec |-> NoRec] :
            k \in {"event42", "json"}, n \in {"connection_established", "other"}}

\* socket.onmessage of build E: handleWebSocketMessage(event) for a frame that
\* arrives on the open transport.
StreamE(f, nc, outcome) ==
    /\ variant = "E"
    /\ socket \in OpenSockets
    /\ Len(log) < MaxMsgs
    /\ f \in FramesE
    /\ IF f.kind \in {"event42", "json"} /\ f.name = "notification"
       THEN HandleNotificationEvent(f.kind, f.rec, nc, outcome)
       ELSE /\ last' =
                 [NoEvent EXCEPT
                    !.op = "stream", !.frame = f.kind, !.clients = nc,
                    !.parseFailed = f.kind \in {"text", "bad42"},
                    !.gate = "dropped",
                    !.pong = (f.kind = "ping"),
                    !.bcasts = IF \/ f.kind = "connect40"
                                  \/ /\ f.kind \in {"event42", "json"}
                                     /\ f.name = "connection_established"
                               THEN {"WEBSOCKET_CONNECTED"} ELSE {}]
            /\ UNCHANGED <<notificationCache, log>>
    /\ isConnected' = IF f.kind = "disconnect41" THEN FALSE ELSE isConnected
    /\ UNCHANGED <<streamVars, variant, now, socket, subscriberId, connectionInProgress,
                   lastConnectionAttempt, reconnectAttempts, sock, timers,
                   lastClose, nextSweep, assetVars>>

\* Push payloads: no data; data whose text() throws; text that is not JSON
\* (raw); JSON null; a JSON number / string / boolean; a flat custom object
\* (obj); a gateway envelope {notification: {title, body}, data: {...}} whose
\* data object is `obj` (EmptyRec: no data, or none of the fields).
PushPayload(kind, raw, ntitle, nbody, obj) ==
    [kind |-> kind, raw |-> raw, ntitle |-> ntitle, nbody |-> nbody, obj |-> obj]

E_TITLE == "Notification"
E_MESSAGE == "You have a new notification"

\* The notificationData the push listener of build E builds (lines 590-623).
NormalizePushE(p) ==
    IF p.kind = "custom" THEN p.obj
    ELSE IF p.kind = "scalar" THEN EmptyRec
    ELSE IF p.kind = "fcm"
    THEN Spread(MkRec(Or(p.ntitle, E_TITLE), Or(p.nbody, E_MESSAGE), Undef, Undef),
                p.obj)
    ELSE MkRec(E_TITLE, E_MESSAGE, Undef, Undef)

\* source === 'setup' || source === 'welcome'
IsSetupE(source) == source = "setup" \/ source = "welcome"

PushInputsE ==
    {PushPayload(k, "", Undef, Undef, EmptyRec) : k \in {"absent", "text"}}
    \cup {PushPayload("custom", "", Undef, Undef, r) : r \in RecsE}
    \cup {PushPayload("fcm", "", "T", "M", MkRec(Undef, Undef, Undef, s)) :
            s \in {Undef, "welcome"}}

\* The push listener of build E: normalize, setup gate, dedup gate, then
\* showBrowserNotification and checkAndNotifyClients; when the fallback of
\* showBrowserNotification rejects too, Promise.all rejects and the listener
\* asks for the fallback once more.
PushE(p, nc, outcome) ==
    /\ variant = "E"
    /\ Len(log) < MaxMsgs
    /\ p \in PushInputsE
    /\ LET data == NormalizePushE(p)
           key == DerivedId(data)
           failed == p.kind \in {"text", "unreadable", "jsonnull"}
           base == [NoEvent EXCEPT !.op = "push", !.frame = p.kind, !.data = data,
                                   !.key = key, !.parseFailed = failed,
                                   !.clients = nc]
       IN  IF IsSetupE(data.source)
           THEN /\ last' = [base EXCEPT !.gate = "setup"]
                /\ UNCHANGED <<notificationCache, log>>
           ELSE IF CacheHit(key)
           THEN /\ last' = [base EXCEPT !.gate = "dup"]
                /\ notificationCache' = CacheAfterCheck(key)
                /\ UNCHANGED log
           ELSE /\ last' = [base EXCEPT
                              !.gate = "delivered", !.showReq = 1,
                              !.display = DisplayE(outcome),
                              !.fallbacks = IF outcome = "ok" THEN 0
                                            ELSE IF outcome = "recordFails" THEN 1
                                            ELSE 2,
                              !.bcasts = IF nc > 0
                                         THEN {"PUSH_NOTIFICATION_RECEIVED"}
                                         ELSE {}]
                /\ log' = Append(log, LogEntry("push", key))
                /\ notificationCache' = CacheAfterCheck(key)
    /\ UNCHANGED <<streamVars, variant, now, connVars, nextSweep, assetVars>>

----------------------------------------------------------------------------
(* Build Z: push and stream handlers, src/zuzzuu-sw.js *)

Z_TITLE == "Zuzzuu Notification"
Z_MESSAGE == "You have a new notification"
Z_MESSAGE_EMPTY == "You have a new notification from Zuzzuu"

\* if (!notificationData.title && !notificationData.message) -> the default
EnsureRequiredFields_Off(d) == d
EnsureRequiredFields(d) ==
    IF ~Truthy(d.title) /\ ~Truthy(d.message)
    THEN MkRec(Z_TITLE, Z_MESSAGE, Undef, Undef)
    ELSE d

\* The notificationData the push listener of build Z builds (lines 592-651).
\* JSON null makes `parsedData.notification` throw inside the inner try, so it
\* is handled as text that is not JSON, with rawData = "null".
NormalizePushZ(p) ==
    EnsureRequiredFields(
        IF p.kind = "absent" THEN MkRec(Z_TITLE, Z_MESSAGE_EMPTY, Undef, Undef)
        ELSE IF p.kind = "unreadable" THEN MkRec(Z_TITLE, Z_MESSAGE, Undef, Undef)
        ELSE IF p.kind \in {"text", "jsonnull"}
        THEN MkRec(Z_TITLE, Or(p.raw, Z_MESSAGE), Undef, Undef)
        ELSE IF p.kind = "scalar" THEN EmptyRec
        ELSE IF p.kind = "custom" THEN p.obj
        ELSE Spread(MkRec(Or(p.ntitle, Z_TITLE), Or(p.nbody, Z_MESSAGE), Undef, Undef),
                    p.obj))

SetupSourcesZ == {"welcome-setup", "auto-setup", "service-worker-setup"}

RecsZ ==
    {[title |-> t, message |-> m, body |-> b, id |-> Undef, source |-> s] :
        t \in {Undef, "", "T"}, m \in {Undef, "", "M"}, b \in {Undef, "B"},
        s \in {Undef, "welcome-setup", "setup"}}

PushInputsZ ==
    {PushPayload(k, "", Undef, Undef, EmptyRec) : k \in {"absent", "unreadable", "scalar"}}
    \cup {PushPayload("text", r, Undef, Undef, EmptyRec) : r \in {"", "hello"}}
    \cup {PushPayload("jsonnull", "null", Undef, Undef, EmptyRec)}
    \cup {PushPayload("custom", "", Undef, Undef, r) : r \in RecsZ}
    \cup {PushPayload("fcm", "", t, b, r) :
            t \in {Undef, "T"}, b \in {Undef, "B"},
            r \in {EmptyRec, MkRec("", "", Undef, Undef),
                   MkRec(Undef, Undef, Undef, "auto-setup")}}

\* What showBrowserNotification of build Z hands to showNotification: it first
\* fills title and body when both are missing, then body || message || default.
ShownZ(d) ==
    LET fix == ~Truthy(d.title) /\ ~Truthy(d.body)
        t == IF fix THEN Z_TITLE ELSE d.title
        b == IF fix THEN Z_MESSAGE ELSE d.body
    IN  [title |-> t, body |-> Or(b, Or(d.message, Z_MESSAGE))]

\* The push listener of build Z: normalize; showBrowserNotification unless the
\* source is a setup source; checkAndNotifyClients in every case.
\* showBrowserNotification catches every failure, so the fallback in the
\* listener's own catch is never reached.
PushZ(p, nc, outcome) ==
    /\ variant = "Z"
    /\ p \in PushInputsZ
    /\ LET data == NormalizePushZ(p)
           setup == data.source \in SetupSourcesZ
           fwd == IF nc > 0 THEN {"PUSH_NOTIFICATION_RECEIVED"} ELSE {}
           base == [NoEvent EXCEPT
                      !.op = "push", !.frame = p.kind, !.data = data, !.clients = nc,
                      !.parseFailed = p.kind \in {"text", "jsonnull", "unreadable"}]
       IN  last' =
             IF setup
             THEN [base EXCEPT !.gate = "setup", !.bcasts = fwd]
             ELSE [base EXCEPT
                     !.gate = "delivered", !.showReq = 1,
                     !.display = IF outcome = "ok" THEN "record"
                                 ELSE IF outcome = "recordFails" THEN "fallback"
                                 ELSE "failed",
                     !.shown = IF outcome = "ok" THEN ShownZ(data)
                               ELSE IF outcome = "recordFails"
                               THEN [title |-> Z_TITLE, body |-> Z_MESSAGE]
                               ELSE NoRec,
                     !.fallbacks = IF outcome = "ok" THEN 0 ELSE 1,
                     !.bcasts = fwd \cup IF outcome = "ok"
                                         THEN {"SHOW_SYSTEM_NOTIFICATION"} ELSE {}]
    /\ UNCHANGED <<streamVars, variant, now, connVars, notificationCache, nextSweep, log, assetVars>>

\* Frames handleWebSocketMessage of build Z tells apart: text that is not JSON
\* (or JSON null, whose `.type` throws), or a JSON object {type: name, ...}
\* carrying the record either under `data` or flat.
FramesZ ==
    {[kind |-> "text", name |-> "", rec |-> NoRec]}
    \cup {[kind |-> "json", name |-> "notification", rec |-> r] :
            r \in {MkRec("T", "M", Undef, s) : s \in {Undef, "welcome-setup"}}}
    \cup {[kind |-> "json", name |-> n, rec |-> NoRec] :
            n \in {"connection_established", "heartbeat_response", "echo", "other"}}

\* socket.onmessage of build Z: a notification is broadcast as
\* NOTIFICATION_RECEIVED and, by showBrowserNotificationFromWebSocket, once more
\* as SHOW_SYSTEM_NOTIFICATION; the worker itself calls no showNotification.
StreamZ(f, nc) ==
    /\ variant = "Z"
    /\ socket \in OpenSockets
    /\ f \in FramesZ
    /\ last' =
         IF f.kind = "json" /\ f.name = "notification"
         THEN [NoEvent EXCEPT
                 !.op = "stream", !.frame = f.kind, !.data = f.rec, !.clients = nc,
                 !.gate = "delivered",
                 !.bcasts = {"NOTIFICATION_RECEIVED", "SHOW_SYSTEM_NOTIFICATION"}]
         ELSE [NoEvent EXCEPT
                 !.op = "stream", !.frame = f.kind, !.clients = nc,
                 !.parseFailed = (f.kind = "text"), !.gate = "dropped",
                 !.bcasts = IF f.name = "connection_established"
                            THEN {"WEBSOCKET_CONNECTED"} ELSE {}]
    /\ UNCHANGED <<streamVars, variant, now, connVars, notificationCache, nextSweep, log, assetVars>>

----------------------------------------------------------------------------
(* Image validation and display, src/unnamed/part_005 *)

MAX_RETRIES == 3          \* maxRetries = 3
RETRY_BASE_DELAY == 200   \* 200 * Math.pow(2, retryCount - 1)
RETRY_MAX_DELAY == 1000   \* Math.min(..., 1000)

\* The value found in the record's image fields: nothing, a value that is not a
\* string, or a string with a scheme.
NoImage == [type |-> "undefined", scheme |-> "", rest |-> ""]
ImageValues ==
    {NoImage, [type |-> "number", scheme |-> "", rest |-> ""]}
    \cup {[type |-> "string", scheme |-> sc, rest |-> "cdn/img.png"] :
            sc \in {"http", "https", "data"}}

\* The validator's answer null.
NullImage == [type |-> "null", scheme |-> "", rest |-> ""]

\* imageUrl.startsWith('http://') || imageUrl.startsWith('https://')
IsHttpUrl_AnyString(u) == u.type = "string"
IsHttpUrl(u) == u.type = "string" /\ u.scheme \in {"http", "https"}

\* What one fetch can answer: a response that is ok with an image content-type,
\* with another content-type, or with none; a response that is not ok; a
\* rejection because of a cross-origin restriction or because the network
\* failed (no such host, connection refused, offline); a rejection with an
\* AbortError (the 15 s timer fired).
FetchOutcomes ==
    {"ok_image", "ok_other", "ok_none", "not_ok", "cors_error", "network_error",
     "abort_error"}

\* fetch rejects with a TypeError for a cross-origin restriction and for a
\* network failure alike: fetchError.name === 'TypeError'
IsTypeError(failure) == failure \in {"cors_error", "network_error"}

\* The fetch was rejected.
Rejections == {"cors_error", "network_error", "abort_error"}

\* const delay = Math.min(200 * Math.pow(2, retryCount - 1), 1000)
RetryDelay(n) == Min(RETRY_BASE_DELAY * Pow2(n - 1), RETRY_MAX_DELAY)

\* The answer once the retries are used up, by the kind of the last failure:
\* a rejected fetch that is a TypeError keeps the original url.
AnswerWhenExhausted_KeepUrl(failure) == vurl
AnswerWhenExhausted(failure) ==
    IF IsTypeError(failure) THEN vurl ELSE NullImage

\* A failed attempt: retry (after the delay) while retryCount < maxRetries,
\* else answer.
AttemptFailed_OneMore(failure) ==
    /\ outcomes' = Append(outcomes, failure)
    /\ IF retryCount <= MAX_RETRIES
       THEN /\ retryCount' = retryCount + 1
            /\ waits' = Append(waits, RetryDelay(retryCount + 1))
            /\ vpc' = "head"
            /\ UNCHANGED validated
       ELSE /\ validated' = AnswerWhenExhausted(failure)
            /\ vpc' = "show"
            /\ UNCHANGED <<retryCount, waits>>
AttemptFailed(failure) ==
    /\ outcomes' = Append(outcomes, failure)
    /\ IF retryCount < MAX_RETRIES
       THEN /\ retryCount' = retryCount + 1
            /\ waits' = Append(waits, RetryDelay(retryCount + 1))
            /\ vpc' = "head"
            /\ UNCHANGED validated
       ELSE /\ validated' = AnswerWhenExhausted(failure)
            /\ vpc' = "show"
            /\ UNCHANGED <<retryCount, waits>>

\* A response that is ok: contentType && !contentType.startsWith('image/')
\* fails the attempt, anything else validates the url.
CheckContentType(r) ==
    IF r = "ok_other"
    THEN AttemptFailed("content_type")
    ELSE /\ validated' = vurl
         /\ outcomes' = Append(outcomes, r)
         /\ vpc' = "show"
         /\ UNCHANGED <<retryCount, waits>>

\* showBrowserNotification(notificationData) up to the first fetch: resolve the
\* image url and call preloadAndValidateImage(imageUrl) when it is truthy.
StartShow(u) ==
    /\ vpc = "idle"
    /\ u \in ImageValues
    /\ vurl' = u
    /\ IF u.type = "undefined"
       THEN validated' = NoImage /\ vpc' = "show"
       ELSE IF ~IsHttpUrl(u)
       THEN validated' = NullImage /\ vpc' = "show"
       ELSE UNCHANGED validated /\ vpc' = "head"
    /\ UNCHANGED <<streamVars, variant, now, connVars, dispVars, retryCount, waits, outcomes, shown>>

\* The HEAD request of one attempt settles.
HeadSettles(r) ==
    /\ vpc = "head"
    /\ r \in FetchOutcomes
    /\ IF r = "not_ok"
       THEN vpc' = "get" /\ UNCHANGED <<retryCount, waits, outcomes, validated>>
       ELSE IF r \in Rejections
       THEN AttemptFailed(r)
       ELSE CheckContentType(r)
    /\ UNCHANGED <<streamVars, variant, now, connVars, dispVars, vurl, shown>>

\* The GET request, made when HEAD was not ok, settles.
GetSettles(r) ==
    /\ vpc = "get"
    /\ r \in FetchOutcomes
    /\ IF r \in {"not_ok"} \cup Rejections
       THEN AttemptFailed(r)
       ELSE CheckContentType(r)
    /\ UNCHANGED <<streamVars, variant, now, connVars, dispVars, vurl, shown>>

\* options.image = validatedImageUrl; showNotification(title, options), and
\* showFallbackNotificationWithoutImage when it rejects.
ShowSettles(outcome) ==
    /\ vpc = "show"
    /\ outcome \in ShowOutcomes
    /\ shown' = [requests |-> IF outcome = "ok" THEN 1 ELSE 2,
                 first |-> validated,
                 displayed |-> IF outcome = "ok" THEN "record"
                               ELSE IF outcome = "recordFails" THEN "fallback"
                               ELSE "none",
                 image |-> IF outcome = "ok" THEN validated ELSE NoImage]
    /\ vpc' = "done"
    /\ UNCHANGED <<streamVars, variant, now, connVars, dispVars, vurl, retryCount, waits,
                   outcomes, validated>>

----------------------------------------------------------------------------
(* Build S: src/sw.js, the connection manager with authenticated transports *)

\* The close codes of build S: those of CloseCodes and the application codes
\* 4001..4004 the server closes an accepted transport with.
AuthCloseCodes == {4001, 4002, 4003}
CloseCodesS == CloseCodes \cup AuthCloseCodes \cup {4004}

\* What a handler of build S reports: the message types handed to
\* notifyClients or posted to every client.
EventS(op, types, nc) ==
    [NoEvent EXCEPT !.op = op, !.bcasts = types, !.clients = nc]

\* message CONNECT_WEBSOCKET: connectWebSocket(subId, wsUrl, useAuth, authToken).
\* Its guards and its body are those of build Z, the dead close branch included;
\* the already-connected return also notifies WEBSOCKET_CONNECTED.
MsgConnectWebSocketS(subId, urlOk, nc) ==
    /\ variant = "S"
    /\ ConnectWebSocketZ(subId, urlOk)
    /\ last' = EventS("connect",
                      IF ~connectionInProgress /\ AlreadyConnected(subId)
                      THEN {"WEBSOCKET_CONNECTED"} ELSE {},
                      nc)
    /\ UNCHANGED <<streamVars, variant, now, reconnectAttempts, timers, lastClose,
                   notificationCache, nextSweep, log, assetVars>>

\* message DISCONNECT_WEBSOCKET: disconnectWebSocket()
DisconnectWebSocketS(nc) ==
    /\ variant = "S"
    /\ connectionInProgress' = FALSE
    /\ sock' = IF socket # 0 THEN [sock EXCEPT ![socket] = CloseCall(@)] ELSE sock
    /\ socket' = 0
    /\ isConnected' = FALSE
    /\ subscriberId' = Null
    /\ last' = EventS("disconnect", {"STORE_CONNECTION_STATE"}, nc)
    /\ UNCHANGED <<streamVars, variant, now, lastConnectionAttempt, reconnectAttempts, timers,
                   lastClose, notificationCache, nextSweep, log, assetVars>>

\* event.code !== 1000 && event.code !== 1001 && event.code < 4000
ShouldReconnectS_NoAuthTest(code) == code # 1000 /\ code # 1001
ShouldReconnectS(code) == code # 1000 /\ code # 1001 /\ code < 4000

\* The types socket.onclose of build S emits for a close code.
CloseEventsS(code) ==
    (IF code \in AuthCloseCodes THEN {"WEBSOCKET_AUTH_FAILED"}
     ELSE IF code = 4004 THEN {"WEBSOCKET_ERROR"} ELSE {})
    \cup {"STORE_CONNECTION_STATE", "WEBSOCKET_DISCONNECTED"}

\* The close event of socket i of build S (after socket.onerror, which notifies
\* WEBSOCKET_ERROR, when the connection failed): socket.onclose.
SocketClosesS(i, code, nc) ==
    /\ variant = "S"
    /\ i \in DOMAIN sock
    /\ code \in IF sock[i].readyState = "OPEN" THEN CloseCodesS
                ELSE PossibleCloseCodes(sock[i])
    /\ sock' = [sock EXCEPT ![i].readyState = "CLOSED", ![i].closeReq = NoCode]
    /\ lastClose' = code
    /\ isConnected' = FALSE
    /\ connectionInProgress' = FALSE
    /\ last' = EventS("close",
                      CloseEventsS(code) \cup
                        IF sock[i].readyState = "CONNECTING" \/ sock[i].failed
                        THEN {"WEBSOCKET_ERROR"} ELSE {},
                      nc)
    /\ timers' = IF ShouldReconnectS(code)
                 THEN timers \cup {[due |-> now + RECONNECT_DELAY_Z, owner |-> i]}
                 ELSE timers
    /\ UNCHANGED <<streamVars, variant, now, socket, subscriberId, lastConnectionAttempt,
                   reconnectAttempts, notificationCache, nextSweep, log, assetVars>>

\* The setTimeout callback of socket.onclose, build S: after 10 s,
\* if (!isConnected && !connectionInProgress) connectWebSocket(subscriberId, ...)
ReconnectTimerS(t, nc) ==
    /\ variant = "S"
    /\ t \in timers
    /\ t.due <= now
    /\ timers' = timers \ {t}
    /\ IF ~isConnected /\ ~connectionInProgress
       THEN ConnectWebSocketZ(subscriberId, TRUE)
       ELSE UNCHANGED <<socket, isConnected, subscriberId, connectionInProgress,
                        lastConnectionAttempt, sock>>
    /\ last' = EventS("timer", {}, nc)
    /\ UNCHANGED <<streamVars, variant, now, reconnectAttempts, lastClose,
                   notificationCache, nextSweep, log, assetVars>>

----------------------------------------------------------------------------
(* Broadcast channel: broadcastToClients and sanitizeForPostMessage of        *)
(* src/zuzzuu-sw.js (build Z) and src/unnamed/part_004 (build E)              *)

\* A message handed to broadcastToClients: its type (Undef when it has none)
\* and the kinds of values found in its data: "str" a string, "fn" a function,
\* "undef" an undefined property, "date" a Date, "cyc" a cyclic reference,
\* "big" a BigInt.
FieldKinds == {"str", "fn", "undef", "date", "cyc", "big"}
Messages ==
    {[type |-> t, fields |-> f, error |-> FALSE] :
        t \in {Undef, "NOTIFICATION_RECEIVED"},
        f \in {{}, {"str"}, {"str", "fn"}, {"undef"}, {"str", "date"},
               {"str", "cyc"}, {"big"}, {"fn", "cyc"}}}

\* JSON.stringify throws on a cyclic structure and on a BigInt.
StringifyThrows(m) == m.fields \cap {"cyc", "big"} # {}

\* JSON.parse(JSON.stringify(message)) when it does not throw: properties that
\* are functions or undefined are left out, a Date arrives as a string.
RoundTrip(m) ==
    [m EXCEPT !.fields = (m.fields \ {"fn", "undef", "date"})
                            \cup (IF "date" \in m.fields THEN {"str"} ELSE {})]

\* The stand-in of the catch block: the type, or 'UNKNOWN', and data.error.
StandIn(m) == [type |-> Or(m.type, "UNKNOWN"), fields |-> {"str"}, error |-> TRUE]

\* sanitizeForPostMessage(message)
SanitizeForPostMessage_Raw(m) == m
SanitizeForPostMessage(m) ==
    IF StringifyThrows(m) THEN StandIn(m) ELSE RoundTrip(m)

\* The message build Z posts when postMessage of the sanitized message threw.
BroadcastError == [type |-> "BROADCAST_ERROR", fields |-> {"str"}, error |-> TRUE]

\* How a foreground context takes postMessage: "ok"; "throws": the first call
\* throws, a second call works; "dead": every call throws.
ContextKinds == {"ok", "throws", "dead"}

\* The sequences of at most n foreground contexts.
RECURSIVE ContextLists(_)
ContextLists(n) ==
    IF n = 0 THEN {<<>>}
    ELSE LET shorter == ContextLists(n - 1)
         IN  shorter \cup {Append(l, k) : l \in shorter, k \in ContextKinds}

\* The postMessage calls made on one context, in order.
PostsZ(m, kind) ==
    IF kind = "ok" THEN <<SanitizeForPostMessage(m)>>
    ELSE <<SanitizeForPostMessage(m), BroadcastError>>

PostsE(m, kind) == <<SanitizeForPostMessage(m)>>

\* What the promise of broadcastToClients resolves to.  Build Z resolves to
\* false without clients or when matchAll rejects, else to Promise.all of the
\* per-client promises: an array with true for each client whose first
\* postMessage did not throw.  Build E resolves to false without clients or
\* when matchAll rejects, else to true.
ResultZ(ctx, matchAllOk) ==
    IF ~matchAllOk \/ ctx = <<>>
    THEN [kind |-> "boolean", val |-> FALSE, each |-> <<>>]
    ELSE [kind |-> "array", val |-> TRUE,
          each |-> [i \in DOMAIN ctx |-> ctx[i] = "ok"]]

ResultE(ctx, matchAllOk) ==
    [kind |-> "boolean", val |-> matchAllOk /\ ctx # <<>>, each |-> <<>>]

\* broadcastToClients(message), with the contexts clients.matchAll finds.
BroadcastToClients(m, ctx, matchAllOk) ==
    /\ m \in Messages
    /\ ctx \in ContextLists(MaxContexts)
    /\ last' = [op |-> "broadcast", msg |-> m, contexts |-> ctx,
                posts |-> IF ~matchAllOk THEN <<>>
                          ELSE [i \in DOMAIN ctx |->
                                  IF variant = "Z" THEN PostsZ(m, ctx[i])
                                  ELSE PostsE(m, ctx[i])],
                result |-> IF variant = "Z" THEN ResultZ(ctx, matchAllOk)
                           ELSE ResultE(ctx, matchAllOk)]
    /\ UNCHANGED <<streamVars, variant, now, connVars, notificationCache, nextSweep, log, assetVars>>

----------------------------------------------------------------------------
(* Stream handler of src/unnamed/part_005: async handleWebSocketMessage.
   socket.onmessage calls it without awaiting it, so a call suspended at an
   await leaves the worker free to handle the next frame. *)

\* await new Promise(resolve => setTimeout(resolve, 500))
IMAGE_LOADING_DELAY == 500

\* What a notification frame carries as image: no image field at all, an image
\* field holding null, or an image field holding an http(s) url.
FrameKinds == {"none", "null", "url"}

\* const hasImageField = notificationData.image_url !== undefined || ...
HasImageField(k) == k # "none"

\* if (imageUrl) { validatedImageUrl = await preloadAndValidateImage(imageUrl) }
NeedsValidation(k) == k = "url"

Emitted(n, what) == [frame |-> n, what |-> what]

\* broadcastToClients({type: 'NOTIFICATION_RECEIVED', ...}) followed by
\* await showBrowserNotificationFromWebSocket(notificationData): the call runs
\* to showNotification at once unless it has an image url to validate first.
BroadcastThenShow(n, k, rest) ==
    IF NeedsValidation(k)
    THEN /\ emitted' = Append(emitted, Emitted(n, "broadcast"))
         /\ handlers' = rest \cup {[frame |-> n, at |-> "validate", due |-> now]}
    ELSE /\ emitted' = emitted \o <<Emitted(n, "broadcast"), Emitted(n, "display")>>
         /\ handlers' = rest

\* socket.onmessage: a notification frame arrives and handleWebSocketMessage
\* runs up to its first await.
HandleWebSocketMessage(k) ==
    /\ k \in FrameKinds
    /\ frames' = Append(frames, k)
    /\ LET n == Len(frames) + 1 IN
         IF HasImageField(k)
         THEN /\ handlers' = handlers \cup
                    {[frame |-> n, at |-> "delay", due |-> now + IMAGE_LOADING_DELAY]}
              /\ emitted' = emitted
         ELSE BroadcastThenShow(n, k, handlers)
    /\ UNCHANGED <<variant, now, connVars, dispVars, assetVars>>

\* The 500 ms timer of a suspended call fires (timers fire in the order they
\* fall due) and the call goes on.
DelayElapses(h) ==
    /\ h \in handlers /\ h.at = "delay"
    /\ h.due <= now
    /\ \A g \in handlers : g.at = "delay" => g.frame >= h.frame
    /\ BroadcastThenShow(h.frame, frames[h.frame], handlers \ {h})
    /\ UNCHANGED <<variant, now, connVars, dispVars, assetVars, frames>>

\* preloadAndValidateImage settles, after however long its fetches took, and
\* showNotification is called.
ValidationSettles(h) ==
    /\ h \in handlers /\ h.at = "validate"
    /\ emitted' = Append(emitted, Emitted(h.frame, "display"))
    /\ handlers' = handlers \ {h}
    /\ UNCHANGED <<variant, now, connVars, dispVars, assetVars, frames>>

----------------------------------------------------------------------------
(* Push listener, the branch for a gateway envelope
   { notification: {...}, data: {...} } (zuzzuu-sw.js 608-622, part_004 597-610) *)

OutFields == {"title", "message", "url", "icon", "image", "tag"}
NotificationKeys == {"title", "body", "url", "icon", "image", "tag"}
DataKeys == OutFields \cup {"click_action"}

\* The key of parsedData.notification that carries an output field: the
\* message travels as notification.body.
NotificationKey(f) == IF f = "message" THEN "body" ELSE f

\* An envelope whose top level, notification object and data object hold the
\* given keys; each value names the place it was found at.
Envelope(topKeys, nKeys, dKeys) ==
    [top |-> [f \in OutFields |-> IF f \in topKeys THEN "top." \o f ELSE Undef],
     notification |-> [k \in NotificationKeys |->
                          IF k \in nKeys THEN "notification." \o k ELSE Undef],
     data |-> [k \in DataKeys |-> IF k \in dKeys THEN "data." \o k ELSE Undef]]

Envelopes ==
    {Envelope(t, n, d) : t \in {{}, OutFields}, n \in SUBSET NotificationKeys,
                         d \in SUBSET DataKeys}

TAG_DEFAULT == "zuzzuu-notification"

\* ...parsedData.data placed last in the object literal: every own property of
\* data replaces the field computed before it.
SpreadData(base, data) ==
    [f \in DOMAIN base |-> IF data[f] # Undef THEN data[f] ELSE base[f]]

\* notificationData = { title: ..., message: ..., url: ..., icon: ..., image: ...,
\*                      tag: ..., ...parsedData.data }
NormalizeGateway(v, env) ==
    LET n == env.notification
        dt == env.data
    IN  SpreadData(
            [title |-> Or(n.title, IF v = "Z" THEN Z_TITLE ELSE E_TITLE),
             message |-> Or(n.body, IF v = "Z" THEN Z_MESSAGE ELSE E_MESSAGE),
             url |-> Or(dt.url, dt.click_action),
             icon |-> Or(n.icon, dt.icon),
             image |-> Or(n.image, dt.image),
             tag |-> Or(dt.tag, TAG_DEFAULT)],
            dt)

\* The push listener receives a gateway envelope and builds notificationData.
PushGateway(env) ==
    /\ env \in Envelopes
    /\ last' = [op |-> "gateway", env |-> env, rec |-> NormalizeGateway(variant, env)]
    /\ UNCHANGED <<streamVars, variant, now, connVars, notificationCache, nextSweep, log, assetVars>>

----------------------------------------------------------------------------
(* Title and body handed to showNotification by src/unnamed/part_005.
   A text is described by how many characters of the record's value it keeps,
   whether '...' was appended, and whether it is a hardcoded default. *)

TITLE_LIMIT == 100        \* if (title.length > 100)
BODY_LIMIT == 200         \* if (body.length > 200)
ELLIPSIS == 3             \* '...'.length

Text(n) == [keep |-> n, dots |-> FALSE, default |-> FALSE]
DefaultText(n) == [keep |-> n, dots |-> FALSE, default |-> TRUE]

\* text.length
Length(t) == t.keep + (IF t.dots THEN ELLIPSIS ELSE 0)

\* value || 'default': the empty string is falsy.
OrDefault(t, n) == IF t.keep = 0 THEN DefaultText(n) ELSE t

\* if (t.length > limit) t = t.substring(0, limit - 3) + '...'
Truncate(t, limit) ==
    IF Length(t) > limit THEN [t EXCEPT !.keep = limit - ELLIPSIS, !.dots = TRUE] ELSE t

\* 'Zuzzuu Notification', 'You have a new notification',
\* 'New Notification from Zuzzuu'
PUSH_TITLE_LEN == 19
PUSH_BODY_LEN == 27
STREAM_TITLE_LEN == 28

\* showBrowserNotification(notificationData): title and body are resolved and
\* truncated, showNotification(title, {body, ...}) is called, and when it rejects
\* showFallbackNotificationWithoutImage(title, notificationData) builds its body
\* from notificationData.message again.
ShowBrowserNotificationTexts(t, m, outcome) ==
    /\ outcome \in ShowOutcomes
    /\ LET title == Truncate(OrDefault(t, PUSH_TITLE_LEN), TITLE_LIMIT)
           body == Truncate(OrDefault(m, PUSH_BODY_LEN), BODY_LIMIT)
       IN  last' = [op |-> "texts", channel |-> "push", title |-> t, message |-> m,
                    display |-> IF outcome = "ok" THEN "record"
                                ELSE IF outcome = "recordFails" THEN "fallback"
                                ELSE "none",
                    shownTitle |-> title,
                    shownBody |-> IF outcome = "ok" THEN body
                                  ELSE OrDefault(m, PUSH_BODY_LEN)]
    /\ UNCHANGED <<streamVars, variant, now, connVars, notificationCache, nextSweep, log, assetVars>>

\* showBrowserNotificationFromWebSocket(notificationData):
\* title = notificationData.title || 'New Notification from Zuzzuu',
\* body = notificationData.message || ''; the fallback as above.
ShowFromWebSocketTexts(t, m, outcome) ==
    /\ outcome \in ShowOutcomes
    /\ last' = [op |-> "texts", channel |-> "stream", title |-> t, message |-> m,
                display |-> IF outcome = "ok" THEN "record"
                            ELSE IF outcome = "recordFails" THEN "fallback"
                            ELSE "none",
                shownTitle |-> OrDefault(t, STREAM_TITLE_LEN),
                shownBody |-> IF outcome = "ok" THEN m
                              ELSE OrDefault(m, PUSH_BODY_LEN)]
    /\ UNCHANGED <<streamVars, variant, now, connVars, notificationCache, nextSweep, log, assetVars>>

----------------------------------------------------------------------------
(* Engine.IO control frames in build E (part_004 lines 486-493) *)

ControlFrames == {"ping", "pong"}

\* The transport socket.send('3') writes to: the module's current socket, when
\* it is OPEN; 0 when no pong is sent.
PongTarget(f) ==
    IF f = "ping" /\ socket # 0 /\ sock[socket].readyState = "OPEN" THEN socket ELSE 0

\* onmessage of WebSocket object i: handleWebSocketMessage(event) for the frame
\* '2' (ping) or '3' (pong); the handler returns before any packet parsing.
ControlFrameE(i, f) ==
    /\ variant = "E"
    /\ i \in OpenSockets
    /\ f \in ControlFrames
    /\ last' = [op |-> "control", frame |-> f, on |-> i, pongOn |-> PongTarget(f),
                showReq |-> 0, bcasts |-> {}]
    /\ UNCHANGED <<streamVars, variant, now, connVars, notificationCache, nextSweep, log, assetVars>>

----------------------------------------------------------------------------
(* Dedup identities of build E compared (part_004 line 570) *)

\* Records whose titles and messages contain the separator '_' and whose id,
\* when there is one, may look like a derived identity.
IdentityRecs ==
    {MkRec(t, m, i, Undef) :
        t \in {"a", "a_b"}, m \in {"c", "b_c"}, i \in {Undef, "n1", "a_b_c"}}

\* isDuplicateNotification computes notificationId for two notifications.
CompareIdentities(a, b) ==
    /\ a \in IdentityRecs /\ b \in IdentityRecs
    /\ last' = [op |-> "identity", a |-> a, b |-> b,
                ida |-> DerivedId(a), idb |-> DerivedId(b)]
    /\ UNCHANGED <<streamVars, variant, now, connVars, notificationCache, nextSweep, log, assetVars>>

----------------------------------------------------------------------------
(* Tag of the notification shown for a push payload (image-validating build) *)

\* The tags and ids a payload may carry; Undef stands for an absent field.
TagValues == {Undef, "", "promo", "news"}
IdValues == {Undef, "", "n1", "n2"}

\* A tag is a text, followed by the value of Date.now() when stamped.
PlainTag(s) == [text |-> s, stamped |-> FALSE, time |-> 0]
StampedTag(s, t) == [text |-> s, stamped |-> TRUE, time |-> t]

\* The push listener: a gateway envelope gets
\* tag: parsedData.data?.tag || 'zuzzuu-notification', then ...parsedData.data
\* (which writes data.tag and data.id over it when data has them); a custom
\* payload is used as parsed.
ListenerTag(format, tag) ==
    IF format = "gateway"
    THEN IF tag # Undef THEN tag ELSE Or(tag, TAG_DEFAULT)
    ELSE tag

\* options.tag of showBrowserNotification:
\* notificationData.tag || notificationData.id ? `zuzzuu-push-${id}`
\*                                             : `zuzzuu-notification-${Date.now()}`
\* The conditional operator binds weaker than ||, so the condition is
\* (tag || id) and the supplied tag is never a result.
OptionsTag(tag, id, t) ==
    IF Truthy(Or(tag, id))
    THEN PlainTag("zuzzuu-push-" \o id)
    ELSE StampedTag("zuzzuu-notification-", t)

\* tag of showFallbackNotificationWithoutImage
FallbackTag(id, t) ==
    IF Truthy(id) THEN PlainTag(id)
    ELSE StampedTag("zuzzuu-fallback-notification-", t)

\* A push payload with the given tag and id is received and displayed.
ShowBrowserNotificationTag(format, tag, id, outcome) ==
    /\ outcome \in ShowOutcomes
    /\ LET t == ListenerTag(format, tag)
       IN  last' = [op |-> "tag", format |-> format, payloadTag |-> tag,
                    id |-> id, time |-> now,
                    display |-> IF outcome = "ok" THEN "record"
                                ELSE IF outcome = "recordFails" THEN "fallback"
                                ELSE "none",
                    shownTag |-> IF outcome = "ok" THEN OptionsTag(t, id, now)
                                 ELSE FallbackTag(id, now)]
    /\ UNCHANGED <<streamVars, variant, now, connVars, notificationCache, nextSweep, log, assetVars>>

----------------------------------------------------------------------------
(* Specification of the connection manager *)

\* The module-level state of the worker script right after it was evaluated.
InitConn ==
    /\ socket = 0
    /\ isConnected = FALSE
    /\ subscriberId = Null
    /\ connectionInProgress = FALSE
    /\ lastConnectionAttempt = 0
    /\ reconnectAttempts = 0
    /\ sock = <<>>
    /\ timers = {}
    /\ lastClose = 0

\* const notificationCache = new Map(); nothing handled yet.
InitDisp ==
    /\ notificationCache = <<>>
    /\ nextSweep = 0
    /\ log = <<>>
    /\ last = NoEvent

\* No notification is being displayed; let validatedImageUrl = undefined.
NotShown == [requests |-> 0, first |-> NoImage, displayed |-> "none", image |-> NoImage]

InitAsset ==
    /\ vpc = "idle"
    /\ vurl = NoImage
    /\ retryCount = 0
    /\ waits = <<>>
    /\ outcomes = <<>>
    /\ validated = NoImage
    /\ shown = NotShown

\* No frame has been received.
InitFrames ==
    /\ frames = <<>>
    /\ handlers = {}
    /\ emitted = <<>>

Init ==
    /\ variant \in Variants
    /\ now = StartTime
    /\ InitConn
    /\ InitDisp
    /\ InitAsset
    /\ InitFrames

\* The specification creates at most MaxSockets WebSocket objects: the steps that
\* may create one are taken only below that number.
Next ==
    \/ /\ Len(sock) < MaxSockets
       /\ \E subId \in Ids, urlOk \in BOOLEAN : MsgConnectWebSocketZ(subId, urlOk)
    \/ DisconnectWebSocketZ
    \/ \E id \in Ids : SetSubscriberIdZ(id)
    \/ \E id \in Ids : ConnectSocketIOZ(id)
    \/ DisconnectSocketIOZ
    \/ Len(sock) < MaxSockets /\ \E t \in timers : ReconnectTimerZ(t)
    \/ Len(sock) < MaxSockets /\ \E subId \in Ids : HandleConnectSocketIO(subId)
    \/ DisconnectSocketIOE
    \/ \E id \in Ids \cup {Null} : SetSubscriberIdE(id)
    \/ Len(sock) < MaxSockets /\ \E t \in timers : ReconnectTimerE(t)
    \/ \E i \in DOMAIN sock : DisconnectPacketE(i)
    \/ \E i \in DOMAIN sock : SocketOpens(i)
    \/ \E i \in DOMAIN sock, code \in CloseCodes : SocketCloses(i, code)
    \/ Tick

Spec == Init /\ [][Next]_vars

----------------------------------------------------------------------------
(* Specification of the reconnect policy: one connect request, then the      *)
(* transport events, the reconnect timers and disconnect requests            *)

\* The clock of the reconnect policy: time passes until the next pending
\* reconnect timer is due; everything else happens without delay.
NextDue == CHOOSE d \in {t.due : t \in timers} : \A t \in timers : d <= t.due

TickR ==
    /\ timers # {}
    /\ \A t \in timers : t.due > now
    /\ now' = NextDue
    /\ UNCHANGED <<streamVars, variant, connVars, dispVars, assetVars>>

InitReconnect ==
    /\ variant \in {"E", "S"}
    /\ now = StartTime
    /\ InitConn
    /\ InitDisp
    /\ InitAsset
    /\ InitFrames

NextReconnect ==
    \/ sock = <<>> /\ HandleConnectSocketIO("A")
    \/ DisconnectSocketIOE
    \/ Len(sock) < MaxSocketsR /\ \E t \in timers : ReconnectTimerE(t)
    \/ \E i \in DOMAIN sock : SocketOpens(i)
    \/ \E i \in DOMAIN sock, code \in CloseCodes : SocketCloses(i, code)
    \/ /\ sock = <<>>
       /\ \E urlOk \in BOOLEAN, nc \in 0..MaxClients : MsgConnectWebSocketS("A", urlOk, nc)
    \/ \E nc \in 0..MaxClients : DisconnectWebSocketS(nc)
    \/ /\ Len(sock) < MaxSocketsR
       /\ \E t \in timers, nc \in 0..MaxClients : ReconnectTimerS(t, nc)
    \/ \E i \in DOMAIN sock, code \in CloseCodesS, nc \in 0..MaxClients :
          SocketClosesS(i, code, nc)
    \/ TickR

SpecReconnect == InitReconnect /\ [][NextReconnect]_vars

----------------------------------------------------------------------------
(* Specification of the broadcast channel *)

InitBroadcast ==
    /\ variant \in Variants
    /\ now = StartTime
    /\ InitConn
    /\ InitDisp
    /\ InitAsset
    /\ InitFrames

NextBroadcast ==
    \E m \in Messages, ctx \in ContextLists(MaxContexts), ok \in BOOLEAN :
        BroadcastToClients(m, ctx, ok)

SpecBroadcast == InitBroadcast /\ [][NextBroadcast]_vars

----------------------------------------------------------------------------
(* Specification of the delivery path *)

\* The clock of the delivery path; the cache cleanup timer is served when due.
TickD ==
    /\ now + DStep <= MaxTimeD
    /\ variant = "E" => nextSweep > now
    /\ now' = now + DStep
    /\ UNCHANGED <<streamVars, variant, connVars, dispVars, assetVars>>

\* A worker whose transport for subscriber "A" is open: connect, then onopen.
\* Build E started its cleanup interval at some earlier time (install).
InitDispatch ==
    /\ variant \in Variants
    /\ now = StartTime
    /\ sock = <<[NewSocket("A", "connect") EXCEPT !.readyState = "OPEN"]>>
    /\ socket = 1
    /\ isConnected = TRUE
    /\ subscriberId = "A"
    /\ connectionInProgress = FALSE
    /\ lastConnectionAttempt = StartTime
    /\ reconnectAttempts = 0
    /\ timers = {}
    /\ lastClose = 0
    /\ notificationCache = <<>>
    /\ nextSweep \in IF variant = "E" THEN {StartTime + DStep, StartTime + 2 * DStep}
                     ELSE {0}
    /\ log = <<>>
    /\ last = NoEvent
    /\ InitAsset
    /\ InitFrames

NextDispatch ==
    \/ TickD
    \/ Sweep
    \/ \E f \in FramesE, nc \in 0..MaxClients, o \in ShowOutcomes : StreamE(f, nc, o)
    \/ \E p \in PushInputsE, nc \in 0..MaxClients, o \in ShowOutcomes : PushE(p, nc, o)
    \/ \E p \in PushInputsZ, nc \in 0..MaxClients, o \in ShowOutcomes : PushZ(p, nc, o)
    \/ \E f \in FramesZ, nc \in 0..MaxClients : StreamZ(f, nc)

SpecDispatch == InitDispatch /\ [][NextDispatch]_vars

----------------------------------------------------------------------------
(* Specification of the display of one notification by part_005 *)

\* part_005 is a build of the Z family; nothing else is going on.
InitShow ==
    /\ variant = "Z"
    /\ now = StartTime
    /\ InitConn
    /\ InitDisp
    /\ InitAsset
    /\ InitFrames

NextAsset ==
    \/ \E u \in ImageValues : StartShow(u)
    \/ \E r \in FetchOutcomes : HeadSettles(r)
    \/ \E r \in FetchOutcomes : GetSettles(r)
    \/ \E o \in ShowOutcomes : ShowSettles(o)

SpecAsset == InitShow /\ [][NextAsset]_vars

\* Every fetch settles: the AbortController of each request aborts it after
\* 15 s (part_005 lines 395 and 413).
SpecAssetLive ==
    /\ SpecAsset
    /\ WF_vars(\E r \in FetchOutcomes : HeadSettles(r))
    /\ WF_vars(\E r \in FetchOutcomes : GetSettles(r))

\* Time passes while frames arrive; a timer that fell due fires before the clock
\* moves on.
TickS ==
    /\ now < MaxTimeS
    /\ \A h \in handlers : h.at = "delay" => h.due > now
    /\ now' = now + StreamStep
    /\ UNCHANGED <<variant, connVars, dispVars, assetVars, streamVars>>

InitStream ==
    /\ variant = "Z"
    /\ now = StartTime
    /\ InitConn
    /\ InitDisp
    /\ InitAsset
    /\ InitFrames

\* The specification receives at most MaxFrames notification frames.
NextStream ==
    \/ Len(frames) < MaxFrames /\ \E k \in FrameKinds : HandleWebSocketMessage(k)
    \/ \E h \in handlers : DelayElapses(h)
    \/ \E h \in handlers : ValidationSettles(h)
    \/ TickS

SpecStream == InitStream /\ [][NextStream]_vars

----------------------------------------------------------------------------
(* Specification of the normalization of gateway envelopes *)

InitGateway ==
    /\ variant \in Variants
    /\ now = StartTime
    /\ InitConn
    /\ InitDisp
    /\ InitAsset
    /\ InitFrames

\* One push message per behaviour.
NextGateway == last = NoEvent /\ \E env \in Envelopes : PushGateway(env)

SpecGateway == InitGateway /\ [][NextGateway]_vars

----------------------------------------------------------------------------
(* Specification of the texts displayed by part_005 *)

\* Lengths of the title and message of the records handled: around the limits.
TextLengths == {0, 1, 97, 100, 101, 197, 200, 201, 250}

InitTexts ==
    /\ variant = "Z"
    /\ now = StartTime
    /\ InitConn
    /\ InitDisp
    /\ InitAsset
    /\ InitFrames

NextTexts ==
    \/ \E t, m \in TextLengths, o \in ShowOutcomes :
           ShowBrowserNotificationTexts(Text(t), Text(m), o)
    \/ \E t, m \in TextLengths, o \in ShowOutcomes :
           ShowFromWebSocketTexts(Text(t), Text(m), o)

SpecTexts == InitTexts /\ [][NextTexts]_vars

----------------------------------------------------------------------------
(* Specification of the control frames of build E: connect requests, transports
   that open, and ping / pong frames arriving on the open transports *)

InitControl ==
    /\ variant = "E"
    /\ now = StartTime
    /\ InitConn
    /\ InitDisp
    /\ InitAsset
    /\ InitFrames

NextControl ==
    \/ Len(sock) < MaxSockets /\ \E subId \in Ids : HandleConnectSocketIO(subId)
    \/ \E i \in DOMAIN sock : SocketOpens(i)
    \/ \E i \in DOMAIN sock, f \in ControlFrames : ControlFrameE(i, f)
    \/ Tick

SpecControl == InitControl /\ [][NextControl]_vars

----------------------------------------------------------------------------
(* Specification of the dedup identities of build E *)

InitIdentity ==
    /\ variant = "E"
    /\ now = StartTime
    /\ InitConn
    /\ InitDisp
    /\ InitAsset
    /\ InitFrames

NextIdentity == \E a, b \in IdentityRecs : CompareIdentities(a, b)

SpecIdentity == InitIdentity /\ [][NextIdentity]_vars

----------------------------------------------------------------------------
(* Specification of the tags shown for push payloads *)

InitTag ==
    /\ variant = "Z"
    /\ now = StartTime
    /\ InitConn
    /\ InitDisp
    /\ InitAsset
    /\ InitFrames

NextTag ==
    \/ \E f \in {"gateway", "custom"}, tag \in TagValues, id \in IdValues,
          o \in ShowOutcomes :
           ShowBrowserNotificationTag(f, tag, id, o)
    \/ Tick

SpecTag == InitTag /\ [][NextTag]_vars

----------------------------------------------------------------------------
(* Claims about the connection manager, checked under Spec *)

\* C1 (original statement, refuted by build Z): when connect(B) is accepted while
\* a transport opened for another identity A is open, the A transport is closed
\* before the B transport is created, and two transports are never open at the
\* same time.
C1_IdentityScoping ==
    variant = "Z" =>
        /\ Cardinality(OpenSockets) <= 1
        /\ \A i, j \in DOMAIN sock :
             (/\ i < j
              /\ sock[j].readyState \in {"CONNECTING", "OPEN"}
              /\ sock[i].ident # sock[j].ident)
             => sock[i].readyState # "OPEN"

\* C2 (original statement, refuted by build E): under every interleaving of
\* connect requests, transport events and reconnect timers, at most one
\* transport is in the connecting state.
C2_OneAttemptInFlight ==
    variant = "E" => Cardinality(ConnectingSockets) <= 1

\* C3: any two transports created by connect() are at least CONNECTION_COOLDOWN
\* apart: a connect() issued less than the cooldown after the previous accepted
\* attempt creates no transport.
C3_CooldownSpacing ==
    \A i, j \in DOMAIN sock :
        (i < j /\ sock[i].by = "connect" /\ sock[j].by = "connect")
        => sock[j].at - sock[i].at >= CONNECTION_COOLDOWN

\* C3 witness: build Z created a second transport exactly one cooldown after
\* the first one.
C3_Witness ==
    /\ variant = "Z"
    /\ Len(sock) >= 2
    /\ sock[2].at - sock[1].at = CONNECTION_COOLDOWN

\* The attempt budget of the build is not used up (build Z has none).
BudgetLeft == variant = "Z" \/ reconnectAttempts < MAX_RECONNECT_ATTEMPTS

\* C10: a close with a normal code (1000 or 1001) schedules no reconnect; a close
\* with the abnormal code 1006 schedules one while the attempt budget lasts.
C10_ReconnectOnlyOnAbnormalClose ==
    [][\A i \in DOMAIN sock, code \in CloseCodes :
         SocketCloses(i, code) =>
            /\ code \in {1000, 1001} => timers' = timers
            /\ (code = 1006 /\ BudgetLeft) =>
                  \E t \in timers' \ timers : t.owner = i /\ t.due > now]_vars

\* C10 witness: the most recent close was abnormal and its reconnect timer is
\* pending, next to a transport that closed earlier without a timer.
C10_Witness ==
    /\ lastClose = 1006
    /\ \E t \in timers : sock[t.owner].readyState = "CLOSED" /\ t.due > now
    /\ \E i \in DOMAIN sock :
          sock[i].readyState = "CLOSED" /\ \A t \in timers : t.owner # i

\* C14: builds Z and E.  disconnectWebSocket() / disconnectSocketIO() calls
\* close(1000) on the current transport, which starts closing unless it was
\* closing or closed already, and right after it there is no current transport,
\* subscriberId is null, isConnected and connectionInProgress are false and the
\* reconnect counter is 0.
C14_DisconnectResets ==
    [][(DisconnectWebSocketZ \/ DisconnectSocketIOE) =>
          /\ socket' = 0
          /\ subscriberId' = Null
          /\ ~isConnected'
          /\ ~connectionInProgress'
          /\ reconnectAttempts' = 0
          /\ socket # 0 =>
                /\ sock'[socket].readyState \in {"CLOSING", "CLOSED"}
                /\ sock[socket].readyState \in {"CONNECTING", "OPEN"} =>
                      /\ sock'[socket].readyState = "CLOSING"
                      /\ sock'[socket].closeReq = 1000]_vars

\* Build E was disconnected while its first reconnect was connecting: that
\* transport is closing with code 1000 and the counter, which was 1, is 0.
C14_Witness ==
    /\ variant = "E"
    /\ socket = 0
    /\ subscriberId = Null
    /\ reconnectAttempts = 0
    /\ Len(sock) = 2
    /\ sock[2].by = "timer"
    /\ sock[2].readyState = "CLOSING"
    /\ sock[2].failed
    /\ sock[2].closeReq = 1000

----------------------------------------------------------------------------
(* Claims about the delivery path, checked under SpecDispatch *)

\* A notification with this derived identity was delivered less than
\* NOTIFICATION_TTL ago, on the given channels.
DeliveredWithinTTL(key, chans) ==
    \E i \in DOMAIN log :
        log[i].key = key /\ log[i].chan \in chans /\ now - log[i].t < NOTIFICATION_TTL

\* C4: build E, stream channel (a step that leaves the clock and the cleanup
\* timer alone is a handler's; last' tells which message it handled).
\* A notification frame whose derived identity was
\* not delivered within the last NOTIFICATION_TTL is broadcast once as
\* NOTIFICATION_RECEIVED and handed once to the display; a frame whose derived
\* identity was delivered within the last NOTIFICATION_TTL produces no
\* broadcast and no display; so two deliveries of one identity by the stream
\* are never less than NOTIFICATION_TTL apart.
C4_IdempotentStreamDelivery ==
    [][(now' = now /\ nextSweep' = nextSweep /\ last'.op = "stream" /\ last'.key # "")
         => IF DeliveredWithinTTL(last'.key, {"push", "stream"})
            THEN /\ last'.gate = "dup"
                 /\ last'.bcasts = {}
                 /\ last'.showReq = 0
                 /\ last'.display = "none"
                 /\ log' = log
            ELSE /\ last'.gate = "delivered"
                 /\ last'.bcasts = {"NOTIFICATION_RECEIVED"}
                 /\ last'.showReq = 1
                 /\ log' = Append(log, LogEntry("stream", last'.key))
                 /\ \A i \in DOMAIN log :
                       (log[i].key = last'.key /\ log[i].chan = "stream")
                          => now - log[i].t >= NOTIFICATION_TTL]_vars

\* A repeat on the stream, DStep after the first occurrence, was dropped.
C4_Witness ==
    /\ variant = "E"
    /\ last.op = "stream"
    /\ last.gate = "dup"
    /\ \E i \in DOMAIN log :
          /\ log[i].key = last.key
          /\ log[i].chan = "stream"
          /\ log[i].t < now
          /\ now - log[i].t < NOTIFICATION_TTL

\* C5: build E.  Push and stream consult one cache: two deliveries of the same
\* derived identity on different channels are never less than NOTIFICATION_TTL
\* apart, whichever channel came first, and a message is dropped as a duplicate
\* only if its identity was delivered before.
C5_SharedDedupCache ==
    variant = "E" =>
        /\ \A i, j \in DOMAIN log :
              (i < j /\ log[i].key = log[j].key /\ log[i].chan # log[j].chan)
                 => log[j].t - log[i].t >= NOTIFICATION_TTL
        /\ last.gate = "dup" =>
              /\ last.showReq = 0
              /\ PostedToClients(last) = {}
              /\ \E i \in DOMAIN log : log[i].key = last.key

\* The event was delivered by push; the same event on the stream was dropped.
C5_Witness ==
    /\ variant = "E"
    /\ last.op = "stream"
    /\ last.gate = "dup"
    /\ Len(log) = 1
    /\ log[1].key = last.key
    /\ log[1].chan = "push"
    /\ now - log[1].t < NOTIFICATION_TTL

\* C6: build Z.  Whatever the push payload, the notification data the push
\* listener ends up with has a non-empty title or a non-empty message.
C6_NormalizationTotal ==
    (variant = "Z" /\ last.op = "push") =>
        Truthy(last.data.title) \/ Truthy(last.data.message)

\* A JSON payload that is not an object was replaced by the default record.
C6_Witness ==
    /\ variant = "Z"
    /\ last.op = "push"
    /\ last.frame = "scalar"
    /\ last.data = MkRec(Z_TITLE, Z_MESSAGE, Undef, Undef)

\* C7: a push payload or stream frame that fails to parse still gets a display
\* request (by the worker, or delegated to the foreground as
\* SHOW_SYSTEM_NOTIFICATION) unless the setup gate or the dedup gate dropped it.
C7_ParseFailureStillDisplayed ==
    last.parseFailed =>
        \/ last.showReq >= 1
        \/ "SHOW_SYSTEM_NOTIFICATION" \in last.bcasts
        \/ last.gate \in {"setup", "dup"}

\* The record carries a source the build's setup gate names.
IsSetupRecord(d) ==
    /\ d # NoRec
    /\ \/ variant = "Z" /\ d.source \in SetupSourcesZ
       \/ variant = "E" /\ IsSetupE(d.source)

\* C8: a record with a setup source is neither handed to the display nor sent
\* to a foreground context, on the push channel and on the stream channel.
C8_SetupNeverDelivered ==
    IsSetupRecord(last.data) =>
        /\ last.showReq = 0
        /\ last.bcasts = {}

\* C17: a record that passed the gates gets exactly two effects: one request
\* to show a system notification and one message carrying the record to the
\* foreground contexts (posted to them when there are any).
C17_ExactlyTwoEffects ==
    last.gate = "delivered" =>
        /\ last.showReq = 1
        /\ Cardinality(last.bcasts) <= 1
        /\ last.clients > 0 => Cardinality(PostedToClients(last)) = 1

\* C18: a stream notification handled while no foreground context is open is
\* shown by the worker itself: it calls showNotification.
C18_BackgroundOnlyDelivery ==
    (last.op = "stream" /\ last.gate = "delivered" /\ last.clients = 0) =>
        last.showReq >= 1

----------------------------------------------------------------------------
(* Claims about image validation, checked under SpecAsset *)

\* Every attempt of the retry budget was made and failed.
EveryAttemptFailed ==
    /\ Len(outcomes) = MAX_RETRIES + 1
    /\ \A i \in DOMAIN outcomes : outcomes[i] \notin {"ok_image", "ok_none"}

C23_RejectsNonHttpAtOnce ==
    (vurl # NoImage /\ (vurl.type # "string" \/ vurl.scheme \notin {"http", "https"})) =>
        /\ vpc \in {"show", "done"}
        /\ validated = NullImage
        /\ outcomes = <<>>
        /\ waits = <<>>
        /\ retryCount = 0

\* A data: url was answered with null and the notification was displayed.
C23_Witness ==
    /\ vpc = "done"
    /\ vurl.type = "string" /\ vurl.scheme = "data"
    /\ validated = NullImage
    /\ outcomes = <<>>
    /\ shown.displayed = "record"

\* The validator is waiting for a fetch / has answered.
Validating == vpc \in {"head", "get"}
Answered == vpc \in {"show", "done"}

\* C24: the validator makes at most 3 retries (4 attempts) whatever the fetches
\* answer, it always comes to an answer, and the answer for a url it was
\* called with is that url or null.
C24_ValidatorTerminates ==
    /\ [](/\ retryCount <= 3
          /\ Len(waits) <= 3
          /\ Len(outcomes) <= 4
          /\ (Answered /\ vurl # NoImage) => validated \in {vurl, NullImage})
    /\ Validating ~> Answered

\* The last of four attempts failed and the validator answered.
C24_Witness ==
    /\ Answered
    /\ retryCount = 3
    /\ Len(outcomes) = 4
    /\ Len(waits) = 3
    /\ validated = NullImage

\* How the last attempt of the validator ended.
LastOutcome == outcomes[Len(outcomes)]

\* C25: when the last probe got an ok response, the validator answers the url
\* only if the declared content-type begins with image/; with another
\* content-type, or with none declared, it answers null.
C25_ContentTypeMustBeImage ==
    (Answered /\ outcomes # <<>> /\ LastOutcome \in {"ok_image", "ok_none", "content_type"}) =>
        (validated = vurl <=> LastOutcome = "ok_image")

\* C26: after a failed last probe the validator answers the url only when the
\* failure was a cross-origin restriction; after an abort or a response that is
\* not ok it answers null.
C26_UrlKeptOnlyOnCrossOrigin ==
    (Answered /\ outcomes # <<>> /\ LastOutcome \in {"not_ok"} \cup Rejections) =>
        /\ validated = vurl => LastOutcome = "cors_error"
        /\ LastOutcome \in {"abort_error", "not_ok"} => validated = NullImage

----------------------------------------------------------------------------
(* Claims about the reconnect policy, checked under SpecReconnect *)

\* The reconnect timers a step schedules.
Scheduled == timers' \ timers

\* C11: build E.  The reconnect counter stays within 0..MAX_RECONNECT_ATTEMPTS;
\* a step schedules at most one reconnect and the counter goes up, by one,
\* exactly in the steps that schedule one; it goes down only to 0, by an open
\* or a disconnect; with the counter at MAX_RECONNECT_ATTEMPTS no step
\* schedules a reconnect.
C11_ReconnectBudget ==
    [][variant = "E" =>
         /\ reconnectAttempts' \in 0..MAX_RECONNECT_ATTEMPTS
         /\ Cardinality(Scheduled) <= 1
         /\ Scheduled # {} <=> reconnectAttempts' = reconnectAttempts + 1
         /\ reconnectAttempts' # reconnectAttempts + 1 =>
               \/ reconnectAttempts' = reconnectAttempts
               \/ reconnectAttempts' = 0 /\ (isConnected' \/ subscriberId' = Null)
         /\ reconnectAttempts = MAX_RECONNECT_ATTEMPTS => Scheduled = {}]_vars

\* Five reconnects in a row were scheduled and made; the transport of the fifth
\* closed abnormally and nothing is scheduled.
C11_Witness ==
    /\ variant = "E"
    /\ reconnectAttempts = MAX_RECONNECT_ATTEMPTS
    /\ lastClose = 1006
    /\ timers = {}
    /\ Len(sock) = MAX_RECONNECT_ATTEMPTS + 1
    /\ \A i \in DOMAIN sock : sock[i].readyState = "CLOSED"
    /\ \A i \in 2..Len(sock) : sock[i].by = "timer"

\* C12: build E.  The k-th consecutive reconnect (k is the counter after the
\* step that schedules it) is scheduled after a delay that starts at about
\* 1 s (RECONNECT_BASE_E) for k = 1, doubles with k and is capped at 30 s.
C12_BackoffDelays ==
    [][\A t \in Scheduled :
          variant = "E" =>
             t.due - now = Min(RECONNECT_BASE_E * Pow2(reconnectAttempts' - 1),
                               RECONNECT_CAP_E)]_vars

\* C13: build S.  A close with an authentication code 4001, 4002 or 4003 emits
\* WEBSOCKET_AUTH_FAILED and schedules no reconnect.
C13_AuthCloseIsFatal ==
    [][\A i \in DOMAIN sock, code \in AuthCloseCodes, nc \in 0..MaxClients :
          SocketClosesS(i, code, nc) =>
             /\ "WEBSOCKET_AUTH_FAILED" \in last'.bcasts
             /\ timers' = timers]_vars

\* The server accepted the transport and closed it with 4001: the event was
\* emitted to an open window and no reconnect is pending.
C13_Witness ==
    /\ variant = "S"
    /\ lastClose = 4001
    /\ last.op = "close"
    /\ last.clients > 0
    /\ "WEBSOCKET_AUTH_FAILED" \in last.bcasts
    /\ timers = {}
    /\ Len(sock) = 1
    /\ sock[1].readyState = "CLOSED"

----------------------------------------------------------------------------
(* Claims about the broadcast channel, checked under SpecBroadcast *)

\* A context accepted the message: its postMessage did not throw.
Accepted(l) == {i \in DOMAIN l.posts : l.contexts[i] = "ok"}

\* C15: the result of broadcastToClients is a boolean, true exactly when at
\* least one foreground context accepted the message.
C15_BroadcastResult ==
    last.op = "broadcast" =>
        /\ last.result.kind = "boolean"
        /\ last.result.val = (Accepted(last) # {})

\* C16: build Z.  Whatever the message holds, every enumerated context gets a
\* postMessage call, and the first one carries the JSON round trip of the
\* message (same type, no function, undefined, cyclic or BigInt value left) or,
\* when JSON.stringify throws, a stand-in with the message's type and an error.
C16_BroadcastSerializable ==
    (variant = "Z" /\ last.op = "broadcast" /\ last.posts # <<>>) =>
        \A i \in DOMAIN last.contexts :
            LET sent == last.posts[i][1]
            IN  /\ sent.fields \subseteq {"str"}
                /\ IF StringifyThrows(last.msg)
                   THEN /\ sent.error
                        /\ sent.type = Or(last.msg.type, "UNKNOWN")
                   ELSE /\ ~sent.error
                        /\ sent.type = last.msg.type
                        /\ ("str" \in sent.fields) <=>
                               (last.msg.fields \cap {"str", "date"} # {})

\* A message with a cyclic reference was broadcast to two contexts; both were
\* sent the stand-in.
C16_Witness ==
    /\ variant = "Z"
    /\ last.op = "broadcast"
    /\ "cyc" \in last.msg.fields
    /\ last.msg.type = "NOTIFICATION_RECEIVED"
    /\ Len(last.contexts) = 2
    /\ Len(last.posts) = 2
    /\ \A i \in 1..2 : last.posts[i][1] = StandIn(last.msg)

----------------------------------------------------------------------------
(* Claim about abandoning a silent connection attempt, checked under Spec *)

\* C20: an attempt of build Z whose WebSocket reports neither open, close nor
\* error does not keep the manager in the Connecting state for ever: a timeout
\* abandons it.  No attempt stays in progress, its socket still CONNECTING, for
\* the whole span of time the specification covers.
C20_ConnectTimeout ==
    \A i \in ConnectingSockets :
        (variant = "Z" /\ socket = i /\ connectionInProgress) =>
            now - sock[i].at < MaxTime - StartTime

----------------------------------------------------------------------------
(* Claims about the order of stream notifications, checked under SpecStream *)

\* C19: broadcasts follow the arrival order of their frames, and so do the
\* showNotification calls: a later frame is never broadcast or displayed before
\* an earlier one, with or without an image field.
C19_ArrivalOrder ==
    \A i, j \in DOMAIN emitted :
        (i < j /\ emitted[i].what = emitted[j].what) =>
            emitted[i].frame < emitted[j].frame

----------------------------------------------------------------------------
(* Claims about gateway envelopes, checked under SpecGateway *)

\* The value the fixed priority gives an output field: top level, then
\* notification.*, then data.*.
FirstPresent(env, f) ==
    Or(env.top[f], Or(env.notification[NotificationKey(f)], env.data[f]))

\* C21: every output field of a gateway envelope takes the top-level value when
\* there is one, else the value under notification, else the value under data;
\* a value under data never replaces one of the first two.
C21_ResolutionOrder ==
    last.op = "gateway" =>
        \A f \in OutFields :
            FirstPresent(last.env, f) # Undef => last.rec[f] = FirstPresent(last.env, f)

\* C22: notification.body of a gateway envelope becomes the message of the
\* record and data.url its url.
C22_GatewayBodyAndUrl ==
    last.op = "gateway" =>
        /\ last.env.notification.body # Undef =>
              last.rec.message = last.env.notification.body
        /\ last.env.data.url # Undef => last.rec.url = last.env.data.url

----------------------------------------------------------------------------
(* Claim about the displayed texts, checked under SpecTexts *)

\* C27: a displayed title has at most 100 characters and a displayed body at
\* most 200; a longer title is its first 97 characters plus '...', a longer body
\* its first 197 characters plus '...', and shorter values are displayed as
\* they are.
C27_TruncatedTexts ==
    (last.op = "texts" /\ last.display # "none") =>
        /\ Length(last.shownTitle) <= 100
        /\ Length(last.shownBody) <= 200
        /\ last.title.keep > 100 => (last.shownTitle.keep = 97 /\ last.shownTitle.dots)
        /\ last.message.keep > 200 => (last.shownBody.keep = 197 /\ last.shownBody.dots)
        /\ last.title.keep \in 1..100 => last.shownTitle = last.title
        /\ last.message.keep \in 1..200 => last.shownBody = last.message

----------------------------------------------------------------------------
(* Claim about control frames, checked under SpecControl *)

\* C28: a ping received on an open transport is answered with a pong on that
\* same transport, and neither a ping nor a pong creates a dedup entry, a
\* display request or a broadcast.
C28_PingAnsweredInProtocol ==
    last.op = "control" =>
        /\ last.frame = "ping" => last.pongOn = last.on
        /\ last.showReq = 0
        /\ last.bcasts = {}
        /\ notificationCache = <<>>
        /\ log = <<>>

----------------------------------------------------------------------------
(* Claims about connect requests, checked under Spec *)

\* One of the three guards turns a connect request for identity id away.
Guarded(id) ==
    \/ connectionInProgress
    \/ isConnected /\ subscriberId = id
    \/ now - lastConnectionAttempt < CONNECTION_COOLDOWN

\* C29: a connect request that a guard turns away changes nothing of the
\* connection state: no WebSocket is created or closed, and subscriberId,
\* lastConnectionAttempt, connectionInProgress and isConnected stay as they are.
C29_RejectedConnectIsNoOp ==
    [][\A id \in Ids :
          (/\ Guarded(id)
           /\ \/ \E urlOk \in BOOLEAN : MsgConnectWebSocketZ(id, urlOk)
              \/ HandleConnectSocketIO(id))
          => UNCHANGED <<socket, sock, subscriberId, lastConnectionAttempt,
                         connectionInProgress, isConnected>>]_vars

\* A state where only the guard on the identity turns a request away: the
\* transport is open for the identity, no attempt is in progress and the
\* cooldown is over.
C29_Witness ==
    /\ isConnected
    /\ socket \in OpenSockets
    /\ subscriberId \in Ids
    /\ Guarded(subscriberId)
    /\ ~connectionInProgress
    /\ now - lastConnectionAttempt >= CONNECTION_COOLDOWN

----------------------------------------------------------------------------
(* Claim about the spacing of all transports of build E, checked under
   SpecReconnect *)

\* C30: in build E two WebSocket objects created one after the other, by a
\* connect request or by the reconnect timer, are at least CONNECTION_COOLDOWN
\* apart, and lastConnectionAttempt is the time the newest one was created.
C30_AllCreationsSpaced ==
    variant = "E" =>
        /\ \A i \in DOMAIN sock :
              i > 1 => sock[i].at - sock[i - 1].at >= CONNECTION_COOLDOWN
        /\ sock # <<>> => lastConnectionAttempt = sock[Len(sock)].at

----------------------------------------------------------------------------
(* Claims about the dedup cache of build E, checked under SpecDispatch *)

\* A step of the stream or push handler of build E that consulted the cache.
CacheConsulted ==
    /\ variant = "E"
    /\ now' = now /\ nextSweep' = nextSweep
    /\ last'.op \in {"stream", "push"}
    /\ last'.gate \in {"dup", "delivered"}

\* C31: a check that reports a duplicate leaves the cache as it is, so the
\* entry keeps the time of the delivery; a repeat that arrives more than
\* NOTIFICATION_TTL after the last delivery of its identity is delivered again.
C31_HitDoesNotMutate ==
    [][CacheConsulted =>
          /\ last'.gate = "dup" => notificationCache' = notificationCache
          /\ (/\ \E i \in DOMAIN log : log[i].key = last'.key
              /\ \A i \in DOMAIN log :
                    log[i].key = last'.key => now - log[i].t > NOTIFICATION_TTL)
             => last'.gate = "delivered"]_vars

\* A repeat was suppressed DStep after the delivery of its identity, and the
\* cache entry still holds the time of the delivery.
C31_Witness ==
    /\ variant = "E"
    /\ last.gate = "dup"
    /\ Len(log) = 1
    /\ log[1].key = last.key
    /\ log[1].t < now
    /\ last.key \in DOMAIN notificationCache
    /\ notificationCache[last.key] = log[1].t

\* C32: after a run of cleanupNotificationCache no entry is older than
\* NOTIFICATION_TTL, and every entry that was not older than that is still
\* there with its time.
C32_SweepRemovesExactlyExpired ==
    [][nextSweep' # nextSweep =>
          /\ \A k \in DOMAIN notificationCache' :
                ~(now - notificationCache'[k] > NOTIFICATION_TTL)
          /\ \A k \in DOMAIN notificationCache :
                ~(now - notificationCache[k] > NOTIFICATION_TTL) =>
                    /\ k \in DOMAIN notificationCache'
                    /\ notificationCache'[k] = notificationCache[k]]_vars

\* The cleanup has removed the entry of a delivery older than NOTIFICATION_TTL
\* and kept the entry of a younger one.
C32_Witness ==
    /\ variant = "E"
    /\ nextSweep > now
    /\ Len(log) = 2
    /\ now - log[1].t > NOTIFICATION_TTL
    /\ log[1].key \notin DOMAIN notificationCache
    /\ log[2].key \in DOMAIN notificationCache

\* The cache of a run in which cleanupNotificationCache never runs: every
\* identity delivered so far, with the time of its latest delivery.
NeverSwept ==
    [k \in {log[i].key : i \in DOMAIN log} |->
        log[CHOOSE i \in DOMAIN log :
              log[i].key = k /\ \A j \in DOMAIN log : log[j].key = k => j <= i].t]

\* isDuplicateNotification's test on a given Map.
HitIn(cache, key) ==
    key \in DOMAIN cache /\ now - cache[key] < NOTIFICATION_TTL

\* C40: build E.  The swept cache is the never-swept cache without some
\* entries older than NOTIFICATION_TTL, so at every time and for every
\* identity the duplicate test answers on it what it answers on the
\* never-swept cache, and each handled message got that answer.
C40_SweepInvisible ==
    variant = "E" =>
        /\ \A k \in DOMAIN notificationCache :
              k \in DOMAIN NeverSwept /\ notificationCache[k] = NeverSwept[k]
        /\ \A k \in DOMAIN NeverSwept :
              HitIn(notificationCache, k) <=> HitIn(NeverSwept, k)
        /\ last.gate = "dup" => last.key \in DOMAIN NeverSwept
        /\ last.gate = "delivered" =>
              /\ last.key \in DOMAIN NeverSwept
              /\ NeverSwept[last.key] = log[Len(log)].t

\* An identity delivered at the start was delivered again more than
\* NOTIFICATION_TTL later, at an instant at which the cleanup has run.
C40_Witness ==
    /\ variant = "E"
    /\ Len(log) = 2
    /\ log[2].key = log[1].key
    /\ log[2].t - log[1].t > NOTIFICATION_TTL
    /\ log[2].t = now
    /\ nextSweep > now
    /\ last.gate = "delivered"
    /\ notificationCache[last.key] = now

----------------------------------------------------------------------------
(* Claim about dedup identities, checked under SpecIdentity *)

\* C33: two notifications get the same dedup identity only if they carry the
\* same id, or neither carries an id and their titles are equal and their
\* messages are equal.
C33_IdentityInjective ==
    (last.op = "identity" /\ last.ida = last.idb) =>
        \/ last.a.id # Undef /\ last.a.id = last.b.id
        \/ /\ last.a.id = Undef /\ last.b.id = Undef
           /\ last.a.title = last.b.title
           /\ last.a.message = last.b.message

----------------------------------------------------------------------------
(* Claim about the fallback display of build E, checked under SpecDispatch *)

\* C34: when showNotification rejects for a delivered record, the generic
\* fallback notification is requested, and no rejection leaves the handler
\* unhandled.
C34_FallbackAndNoEscape ==
    (variant = "E" /\ last.gate = "delivered" /\ last.display # "record") =>
        /\ last.fallbacks >= 1
        /\ ~last.unhandled

\* C37: builds Z and E.  While there is no current transport (disconnect was
\* called and no connect request was accepted since), a transport is created
\* only by a connect request: a reconnect timer that fires creates none.
C37_NoTransportAfterDisconnect ==
    [][(socket = 0 /\ Len(sock') > Len(sock)) => timers' = timers]_vars

\* C38: build Z.  An open or close event (a close after an error included) of
\* a transport that is not the current one leaves isConnected and
\* connectionInProgress as they are and schedules no reconnect.
C38_StaleEventsIgnored ==
    [][\A i \in DOMAIN sock :
         (variant = "Z" /\ i # socket /\
          (SocketOpens(i) \/ \E code \in CloseCodes : SocketCloses(i, code))) =>
            /\ isConnected' = isConnected
            /\ connectionInProgress' = connectionInProgress
            /\ timers' = timers]_vars

\* C39: build Z.  Whenever isConnected is true and the current transport is
\* open, subscriberId (the identity GET_STATUS reports and connectWebSocket
\* compares with) is the identity the current transport was opened with.
C39_ConnectedIdentityIsTransportIdentity ==
    (variant = "Z" /\ isConnected /\ socket \in OpenSockets) =>
        subscriberId = sock[socket].ident

----------------------------------------------------------------------------
(* Claims about the tag of the shown notification, checked under SpecTag *)

\* C35: when the payload supplies a tag, the notification built from the
\* record is shown with exactly that tag, unstamped.
C35_SuppliedTagIsShown ==
    (last.op = "tag" /\ last.display = "record" /\ Truthy(last.payloadTag)) =>
        last.shownTag = PlainTag(last.payloadTag)

\* C36: the waits before the first, second and third retry are 200, 500 and
\* 1000 ms: they strictly increase and the third is 1000 ms.
C36_RetryWaits ==
    /\ \A i \in DOMAIN waits : i <= 3 => waits[i] = <<200, 500, 1000>>[i]
    /\ \A i, j \in DOMAIN waits : i < j => waits[i] < waits[j]

====
